---- MODULE Spec2Model ----
(***************************************************************************)
(* Scan orchestration of the PII detector agent: discovery and diff of a   *)
(* source against the control plane (BaseScanService.scanner_preparation), *)
(* the per-chunk scan pipeline (run_scanner, analyze_content_data,         *)
(* save_chunk) and the rescan pipeline (start_rescan_task), run by several *)
(* agents against one control plane.                                       *)
(*                                                                         *)
(* Every request of an agent is one step: a request to the control plane   *)
(* has the effect on the control plane's records that it asks for, a read  *)
(* of the source returns what the source holds at that moment.  The source *)
(* is written by the outside world between any two steps.                  *)
(***************************************************************************)
EXTENDS Integers, Sequences, FiniteSets, TLC

\* ------------------------------------------------------------------ bounds
NumAgents == 2          \* scanner agents sharing the control plane
MaxWrites == 2          \* writes (put, delete) of the outside world to the source
MaxJobs == 2            \* runs of the periodic and rescan jobs, all agents together
MaxChunks == 2          \* an object holds 0 .. MaxChunks full chunks of bytes
MaxCatalog == 1         \* edits of the classifier catalog
MaxFaults == 1          \* errors raised inside a scan pipeline
MaxSeqWrites == 3       \* writes to the source, one agent working alone
MaxSeqJobs == 4         \* runs of the periodic job, one agent working alone

\* ------------------------------------------------------- program constants
CHUNK_BYTES_CAPACITY == 1000000

Agents == 1..NumAgents
Paths == {"a", "b"}
Contents == {"pii", "txt"}
None == "None"

WAIT_FOR_SCAN == "Wait for scan"
IN_PROGRESS == "In progress"
SCANNED == "Scanned"
IGNORED == "Ignored"
SKIPPED == "Skipped"
FAILED == "Failed"

\* ------------------------------------------------------------------ helpers
Range(s) == {s[i] : i \in DOMAIN s}

Max(S) == CHOOSE x \in S : \A y \in S : y <= x

Min(S) == CHOOSE x \in S : \A y \in S : x <= y

\* The elements of a finite set of integers, ascending.
RECURSIVE Sorted(_)
Sorted(S) == IF S = {} THEN <<>> ELSE <<Min(S)>> \o Sorted(S \ {Min(S)})

\* str.split(','): the pieces of s between commas.
RECURSIVE split(_, _, _)
split(s, i, piece) ==
    IF i > Len(s) THEN <<piece>>
    ELSE IF SubSeq(s, i, i) = "," THEN <<piece>> \o split(s, i + 1, "")
    ELSE split(s, i + 1, piece \o SubSeq(s, i, i))

split_comma(s) == split(s, 1, "")

\* ------------------------------------------------------------------- state
VARIABLES
    source,         \* the scanned source: full_path -> [etag, size, data]
    writes,         \* writes of the outside world so far
    excluded,       \* full_paths the filename classifiers exclude
    catalog,        \* newest timestamp of the classifier catalog
    metadata,       \* control plane: file metadata id -> record
    chunks,         \* control plane: data chunk id -> record
    findings,       \* control plane: ids of the chunks with sensitive data stored
    last_scanned,   \* control plane: the classification group's last_scanned is set
    nextId,         \* control plane: next record id
    agent,          \* per agent: the state of its job, see AgentInit
    jobs,           \* jobs started so far
    faults,         \* errors raised so far
    swept,          \* history: metadata ids the tombstone sweeps deleted
    seen,           \* history: value of writes when a discovery run last completed
    watch,          \* history: the latest put over a fully scanned object
    planned,        \* a connector's chunk plan for one discovered object
    fetching,       \* a connector's fetch of one chunk of one blob
    scheduler,      \* the agent's foreground scheduler, see InitScheduler
    pool,           \* the process pool draining one work set, see InitPool
    client,         \* one logical request to the control plane, see InitRequest
    analysis,       \* the pipeline of one leased chunk after its fetch, see InitAnalysis
    archive,        \* the discovery of one archive object, see InitArchive
    masking,        \* one call of mask_data, see InitMasking
    matcher,        \* one run of _analyze over a text, see InitMatcher
    batching,       \* one run of scan_file_object and its consumer, see InitBatching
    process,        \* the agent process under a termination signal, see InitProcess
    detection,      \* one run of detect_new_tasks_job over a group, see InitDetection
    extraction,     \* the extraction directory of one archive and the workers fetching its chunks, see InitExtraction
    filtering       \* filter_objects of one discovery run: its inputs, stage and result

world == <<source, writes, excluded, catalog>>
plane == <<metadata, chunks, findings, last_scanned, nextId>>
history == <<swept, seen, watch>>
units == <<planned, fetching, scheduler, pool, client, analysis, archive, masking, matcher, batching, process, detection, extraction, filtering>>
cycle == <<world, plane, agent, jobs, faults, history>>
vars == <<world, plane, agent, jobs, faults, history, units>>

\* The state of an agent between jobs.  pc is the request the job issues next;
\* the other fields are the attributes and locals of BaseScanService,
\* run_periodic_scanning_task and run_scanner that live across requests;
\* requests is the history of the discovery run's mutating requests and
\* listed the value of writes at its listing.
AgentInit ==
    [pc |-> "idle",
     rescan_mode |-> FALSE,
     stored_source_metadata |-> <<>>,
     all_src_objects |-> <<>>,
     deleted_chunks |-> {},
     idx |-> 0,
     object_chunks |-> <<>>,
     updated_chunks |-> {},
     ignored_paths |-> {},
     files_to_scan |-> <<>>,
     pool_attrs |-> <<>>,
     update_result |-> FALSE,
     data |-> None,
     latest_data_type |-> 0,
     requests |-> <<>>,
     listed |-> 0]

\* ------------------------------------------------------------------ source
Sizes == {n * CHUNK_BYTES_CAPACITY : n \in 0..MaxChunks}

\* ceil(size / CHUNK_BYTES_CAPACITY)
chunk_count(size) == (size + CHUNK_BYTES_CAPACITY - 1) \div CHUNK_BYTES_CAPACITY

\* The objects the outside world may put: a size and one content per chunk.
Objects == UNION {[size : {sz}, data : [1..chunk_count(sz) -> Contents]] : sz \in Sizes}

\* The paths and objects written while several agents work.
SharedPaths == {"a"}

SharedObjects == {o \in Objects : \A i \in DOMAIN o.data : o.data[i] = "pii"}

\* A plan of the whole chunks only.
create_file_chunks_floor(size) ==
    [i \in 1..(size \div CHUNK_BYTES_CAPACITY) |-> (i - 1) * CHUNK_BYTES_CAPACITY]

\* FileService.create_file_chunks: the offsets i * CHUNK_BYTES_CAPACITY.
create_file_chunks(size) ==
    [i \in 1..chunk_count(size) |-> (i - 1) * CHUNK_BYTES_CAPACITY]

\* FileService.collect_file_chunks: an object without chunks is SCANNED.
collect_file_chunks(path, obj) ==
    LET data_chunks == create_file_chunks(obj.size)
    IN [full_path |-> path, etag |-> obj.etag, size |-> obj.size,
        status |-> IF data_chunks = <<>> THEN SCANNED ELSE WAIT_FOR_SCAN,
        data_chunks |-> data_chunks]

PathOrder == <<"a", "b">>

\* get_objects_by_source: the listing of the source, in key order.
get_objects_by_source ==
    LET present == SelectSeq(PathOrder, LAMBDA p : p \in DOMAIN source)
    IN [i \in DOMAIN present |-> collect_file_chunks(present[i], source[present[i]])]

\* fetch_data: the content of the chunk at offset, None when it cannot be read.
fetch_data(path, offset) ==
    LET i == (offset \div CHUNK_BYTES_CAPACITY) + 1
    IN IF path \in DOMAIN source /\ i \in DOMAIN source[path].data
       THEN source[path].data[i] ELSE None

\* DataAnalysisService.hash_data: sha384 of the text, as a hex digest.
hash_data(text) == "sha384:" \o text

\* The records of a path all of whose chunks are SCANNED, one chunk at least.
fully_scanned(path) ==
    {m \in DOMAIN metadata :
        /\ metadata[m].file_full_path = path
        /\ \E c \in DOMAIN chunks : chunks[c].metadata_id = m
        /\ \A c \in DOMAIN chunks : chunks[c].metadata_id = m => chunks[c].status = SCANNED}

records_of(path) == {m \in DOMAIN metadata : metadata[m].file_full_path = path}

\* The outside world puts an object: a new version token, a size, contents.
PutObject(p, o) ==
    /\ p \in DOMAIN source => [size |-> source[p].size, data |-> source[p].data] # o
    /\ source' = [q \in DOMAIN source \cup {p} |->
                    IF q = p THEN [etag |-> writes + 1, size |-> o.size, data |-> o.data]
                    ELSE source[q]]
    /\ watch' = IF /\ p \in DOMAIN source
                   /\ Cardinality(records_of(p)) = 1
                   /\ fully_scanned(p) = records_of(p)
                   /\ \A m \in records_of(p) :
                         /\ metadata[m].file_etag = source[p].etag
                         /\ metadata[m].file_size = source[p].size
                THEN {[path |-> p, old |-> source[p],
                       ids |-> {c \in DOMAIN chunks : chunks[c].metadata_id \in records_of(p)}]}
                ELSE {}
    /\ writes' = writes + 1
    /\ UNCHANGED <<units, excluded, catalog, plane, agent, jobs, faults, swept, seen>>

\* The outside world deletes an object.
DeleteObject(p) ==
    /\ p \in DOMAIN source
    /\ source' = [q \in DOMAIN source \ {p} |-> source[q]]
    /\ writes' = writes + 1
    /\ watch' = {}
    /\ UNCHANGED <<units, excluded, catalog, plane, agent, jobs, faults, swept, seen>>

ExcludablePaths == {"a"}

\* The classifier catalog is edited: a newer timestamp, and filename
\* classifiers that exclude other paths.
EditCatalog ==
    /\ catalog - 1 < MaxCatalog
    /\ \E ex \in SUBSET ExcludablePaths : excluded' = ex
    /\ catalog' = catalog + 1
    /\ UNCHANGED <<units, source, writes, plane, agent, jobs, faults, history>>

\* ----------------------------------------------------------- control plane
\* The chunks of a metadata record as GET file-metadata/filter returns them.
chunks_of(metadata_id) ==
    LET ids == Sorted({c \in DOMAIN chunks : chunks[c].metadata_id = metadata_id})
    IN [j \in DOMAIN ids |->
          [id |-> ids[j], offset |-> chunks[ids[j]].offset, hash |-> chunks[ids[j]].hash]]

\* An object's aggregate status: IGNORED when excluded, SCANNED when all its
\* chunks are SCANNED, the status it was created with when it has no chunks.
file_metadata_status(metadata_id) ==
    LET own == {c \in DOMAIN chunks : chunks[c].metadata_id = metadata_id}
    IN IF metadata[metadata_id].status = IGNORED THEN IGNORED
       ELSE IF own = {} THEN metadata[metadata_id].status
       ELSE IF \A c \in own : chunks[c].status = SCANNED THEN SCANNED
       ELSE WAIT_FOR_SCAN

\* load_stored_metadata: GET file-metadata/filter for the (account, source).
load_stored_metadata ==
    LET ids == Sorted(DOMAIN metadata)
    IN [i \in DOMAIN ids |->
          [id |-> ids[i],
           file_full_path |-> metadata[ids[i]].file_full_path,
           file_etag |-> metadata[ids[i]].file_etag,
           file_size |-> metadata[ids[i]].file_size,
           status |-> file_metadata_status(ids[i]),
           chunks |-> chunks_of(ids[i])]]

\* list[ObjectContents]: one per chunk id, current_chunk filled from the record.
object_contents(ids) ==
    LET order == Sorted(ids)
    IN [i \in DOMAIN order |->
          [full_path |-> metadata[chunks[order[i]].metadata_id].file_full_path,
           current_chunk |->
              [id |-> order[i],
               metadata_id |-> chunks[order[i]].metadata_id,
               offset |-> chunks[order[i]].offset,
               hash |-> chunks[order[i]].hash,
               instance_id |-> chunks[order[i]].instance_id]]]

\* get_wait_for_scan_objects: GET data-chunks/filter, status WAIT_FOR_SCAN.
get_wait_for_scan_objects ==
    object_contents({c \in DOMAIN chunks : chunks[c].status = WAIT_FOR_SCAN})

\* GET rescan/data-chunks/filter: the agent's SCANNED chunks whose
\* latest_data_type predates the classifier catalog.
rescan_chunks(scanner_id) ==
    object_contents({c \in DOMAIN chunks :
                       /\ chunks[c].status = SCANNED
                       /\ chunks[c].instance_id = scanner_id
                       /\ chunks[c].latest_data_type < catalog})

\* DELETE delete-batch-metadata: the records, with their chunks and findings.
delete_file_metadata(ids) ==
    /\ metadata' = [m \in DOMAIN metadata \ ids |-> metadata[m]]
    /\ chunks' = [c \in {d \in DOMAIN chunks : chunks[d].metadata_id \notin ids} |-> chunks[c]]
    /\ findings' = {c \in findings : chunks[c].metadata_id \notin ids}
    /\ UNCHANGED <<last_scanned, nextId>>

\* DELETE data-chunks-batch: the chunks, with their findings.
delete_chunks_batch(ids) ==
    /\ chunks' = [c \in DOMAIN chunks \ ids |-> chunks[c]]
    /\ findings' = findings \ ids
    /\ UNCHANGED <<metadata, last_scanned, nextId>>

\* A new chunk record, as the DataChunk of create_file_chunks serialises.
\* leases and refused are history: the conditional updates to IN_PROGRESS
\* that matched the chunk, and whether one matched no row, since the chunk
\* last entered WAIT_FOR_SCAN.
new_chunk(metadata_id, offset, scanner_id) ==
    [metadata_id |-> metadata_id, offset |-> offset, hash |-> None,
     status |-> WAIT_FOR_SCAN, instance_id |-> scanner_id, scanned_at |-> FALSE,
     latest_data_type |-> 0, labels |-> None, leases |-> 0, refused |-> FALSE]

\* The chunk records a create adds for the offsets, ids from first on.
created_chunks(metadata_id, offsets, first, scanner_id) ==
    [c \in first..(first + Len(offsets) - 1) |->
        new_chunk(metadata_id, offsets[c - first + 1], scanner_id)]

\* POST file-metadata-batch: a record per object, with the object's chunks.
RECURSIVE created_metadata(_, _, _)
created_metadata(objects, records, scanner_id) ==
    IF objects = <<>> THEN records
    ELSE LET obj == Head(objects)
             id == records.nextId
         IN created_metadata(
              Tail(objects),
              [metadata |-> records.metadata @@
                              (id :> [file_full_path |-> obj.full_path,
                                      file_etag |-> obj.etag,
                                      file_size |-> obj.size,
                                      status |-> obj.status]),
               chunks |-> records.chunks @@
                              created_chunks(id, obj.data_chunks, id + 1, scanner_id),
               nextId |-> id + 1 + Len(obj.data_chunks)],
              scanner_id)

save_batch_metadata(obj_in, scanner_id) ==
    LET saved == created_metadata(
                   obj_in, [metadata |-> metadata, chunks |-> chunks, nextId |-> nextId],
                   scanner_id)
    IN /\ metadata' = saved.metadata
       /\ chunks' = saved.chunks
       /\ nextId' = saved.nextId
       /\ UNCHANGED <<findings, last_scanned>>

\* An update that only puts the chunk back into the queue.
requeue_chunk(chunk, scanner_id) ==
    [chunk EXCEPT !.status = WAIT_FOR_SCAN, !.leases = 0, !.refused = FALSE]

\* The fields update_metadata_existing_chunks sets on a chunk.
reset_chunk(chunk, scanner_id) ==
    [chunk EXCEPT !.scanned_at = FALSE, !.instance_id = scanner_id,
                  !.labels = None, !.hash = None, !.status = WAIT_FOR_SCAN,
                  !.leases = 0, !.refused = FALSE]

\* PATCH data-chunks-batch: the chunks of the record among ids take the
\* update, the record takes object_size.
update_chunks_batch(metadata_id, ids, object_size, scanner_id) ==
    /\ chunks' = [c \in DOMAIN chunks |->
                    IF c \in ids /\ chunks[c].metadata_id = metadata_id
                    THEN reset_chunk(chunks[c], scanner_id) ELSE chunks[c]]
    /\ metadata' = [m \in DOMAIN metadata |->
                      IF m = metadata_id
                      THEN [metadata[m] EXCEPT !.file_size = object_size]
                      ELSE metadata[m]]
    /\ UNCHANGED <<findings, last_scanned, nextId>>

\* POST data-chunks-batch: new chunks under the record, which takes
\* metadata_size and metadata_status; nothing when the record is gone.
create_chunks_batch(metadata_id, metadata_size, offsets, scanner_id) ==
    IF metadata_id \in DOMAIN metadata
    THEN /\ chunks' = chunks @@ created_chunks(metadata_id, offsets, nextId, scanner_id)
         /\ metadata' = [metadata EXCEPT ![metadata_id].file_size = metadata_size,
                                         ![metadata_id].status = WAIT_FOR_SCAN]
         /\ nextId' = nextId + Len(offsets)
         /\ UNCHANGED <<findings, last_scanned>>
    ELSE UNCHANGED plane

\* PATCH file-metadata/update-with-ignore.
update_with_ignore(ids) ==
    /\ metadata' = [m \in DOMAIN metadata |->
                      IF m \in ids THEN [metadata[m] EXCEPT !.status = IGNORED]
                      ELSE metadata[m]]
    /\ UNCHANGED <<chunks, findings, last_scanned, nextId>>

\* ---------------------------------------------------------- discovery, diff
\* remove_deleted_metadata
source_objects_paths(fetched_objects) ==
    {fetched_objects[i].full_path : i \in DOMAIN fetched_objects}

db_object_paths(stored) == {stored[i].file_full_path : i \in DOMAIN stored}

\* {metadata.file_full_path: metadata.id for ...}: a path's last record wins.
db_objects_dict(stored) ==
    [p \in db_object_paths(stored) |->
        stored[Max({i \in DOMAIN stored : stored[i].file_full_path = p})].id]

files_to_delete(stored, fetched_objects) ==
    db_object_paths(stored) \ source_objects_paths(fetched_objects)

meta_ids(stored, fetched_objects) ==
    {db_objects_dict(stored)[p] : p \in files_to_delete(stored, fetched_objects)}

\* remove_deleted_chunks: f'{full_path}{offset}'
chunk_key(full_path, offset) == full_path \o ToString(offset)

source_objects_chunks(fetched_objects) ==
    UNION {{chunk_key(fetched_objects[i].full_path, fetched_objects[i].data_chunks[j]) :
              j \in DOMAIN fetched_objects[i].data_chunks} : i \in DOMAIN fetched_objects}

chunk_positions(stored) ==
    UNION {{<<i, j>> : j \in DOMAIN stored[i].chunks} : i \in DOMAIN stored}

\* db_object_chunks_dict: key -> chunk id, the last chunk of a key wins.
db_object_chunks_dict(stored) ==
    LET key(pos) == chunk_key(stored[pos[1]].file_full_path,
                              stored[pos[1]].chunks[pos[2]].offset)
        keys == {key(pos) : pos \in chunk_positions(stored)}
        last(k) == LET at == {pos \in chunk_positions(stored) : key(pos) = k}
                       i == Max({pos[1] : pos \in at})
                       j == Max({pos[2] : pos \in {q \in at : q[1] = i}})
                   IN stored[i].chunks[j].id
    IN [k \in keys |-> last(k)]

chunks_to_delete(stored, fetched_objects) ==
    DOMAIN db_object_chunks_dict(stored) \ source_objects_chunks(fetched_objects)

chunk_ids(stored, fetched_objects) ==
    {db_object_chunks_dict(stored)[k] : k \in chunks_to_delete(stored, fetched_objects)}

\* remove_deleted_files_from_db: metadata_paths_sizes.get(full_path), as the
\* position of the record in stored (0: no record); a path's last record wins.
meta_obj_index(stored, full_path) ==
    LET at == {i \in DOMAIN stored : stored[i].file_full_path = full_path}
    IN IF at = {} THEN 0 ELSE Max(at)

\* The loop's next object, from position i on, that is stored with another size.
RECURSIVE next_changed(_, _, _)
next_changed(stored, fetched_objects, i) ==
    IF i > Len(fetched_objects) THEN i
    ELSE LET m == meta_obj_index(stored, fetched_objects[i].full_path)
         IN IF m = 0 \/ stored[m].file_size = fetched_objects[i].size
            THEN next_changed(stored, fetched_objects, i + 1)
            ELSE i

\* f'{full_path},{offset},{hash}'
chunk_string(full_path, offset, hash) ==
    full_path \o "," \o ToString(offset) \o "," \o hash

\* The offsets of the object's chunks the loop fetches and hashes.
hashed_offsets(obj, deleted) ==
    SelectSeq(obj.data_chunks, LAMBDA o : chunk_key(obj.full_path, o) \notin deleted)

\* metadata_chunks: key -> chunk id (the value's first field).
metadata_chunks(meta_obj, deleted) ==
    LET kept == {j \in DOMAIN meta_obj.chunks :
                   chunk_key(meta_obj.file_full_path, meta_obj.chunks[j].offset) \notin deleted}
        key(j) == chunk_string(meta_obj.file_full_path, meta_obj.chunks[j].offset,
                               meta_obj.chunks[j].hash)
    IN [k \in {key(j) : j \in kept} |->
          meta_obj.chunks[Max({j \in kept : key(j) = k})].id]

\* update_metadata_existing_chunks
chunks_to_update(object_chunks, db_chunks) == DOMAIN db_chunks \ Range(object_chunks)

\* create_newly_added_chunks
offsets_to_create(source_objects_chunks_list, db_chunks, updated) ==
    LET filtered_chunks == Range(source_objects_chunks_list) \ DOMAIN db_chunks
        offsets_to_update == {split_comma(c)[2] : c \in updated}
    IN {split_comma(c)[2] : c \in filtered_chunks} \ offsets_to_update

chunks_to_create_list(obj, source_objects_chunks_list, db_chunks, updated) ==
    SelectSeq(obj.data_chunks,
              LAMBDA o : ToString(o) \in
                            offsets_to_create(source_objects_chunks_list, db_chunks, updated))

\* The object and the record the loop of remove_deleted_files_from_db is at.
obj_value(r) == r.all_src_objects[r.idx]

meta_obj(r) ==
    r.stored_source_metadata[meta_obj_index(r.stored_source_metadata, obj_value(r).full_path)]

db_chunks_of(r) == metadata_chunks(meta_obj(r), r.deleted_chunks)

\* The loop of remove_deleted_files_from_db up to its next request: the pc
\* moves to the fetch of a chunk ("hash"), to the PATCH ("update") or the POST
\* ("create") of the object at idx, or past the loop ("filter").
RECURSIVE next_object(_, _), after_hash(_), after_update(_)
next_object(r, i) ==
    LET at == next_changed(r.stored_source_metadata, r.all_src_objects, i)
        r1 == [r EXCEPT !.idx = at, !.object_chunks = <<>>, !.updated_chunks = {}]
    IN IF at > Len(r.all_src_objects) THEN [r1 EXCEPT !.pc = "filter"]
       ELSE IF hashed_offsets(obj_value(r1), r.deleted_chunks) # <<>>
            THEN [r1 EXCEPT !.pc = "hash"]
            ELSE after_hash(r1)

after_hash(r) ==
    IF chunks_to_update(r.object_chunks, db_chunks_of(r)) # {}
    THEN [r EXCEPT !.pc = "update"]
    ELSE after_update(r)

after_update(r) ==
    IF chunks_to_create_list(obj_value(r), r.object_chunks, db_chunks_of(r),
                             r.updated_chunks) # <<>>
    THEN [r EXCEPT !.pc = "create"]
    ELSE next_object(r, r.idx + 1)

\* remove_deleted_files_from_db after remove_deleted_metadata: the DELETE of
\* remove_deleted_chunks ("rm_chunks") when there are chunks to delete.
after_remove_deleted_metadata(r) ==
    LET deleted == chunks_to_delete(r.stored_source_metadata, r.all_src_objects)
        r1 == [r EXCEPT !.deleted_chunks = deleted]
    IN IF chunk_ids(r.stored_source_metadata, r.all_src_objects) # {}
       THEN [r1 EXCEPT !.pc = "rm_chunks"]
       ELSE next_object(r1, 1)

\* remove_deleted_files_from_db from its start: nothing when nothing is stored.
remove_deleted_files_from_db(r) ==
    IF r.stored_source_metadata = <<>> THEN [r EXCEPT !.pc = "filter"]
    ELSE IF meta_ids(r.stored_source_metadata, r.all_src_objects) # {}
    THEN [r EXCEPT !.pc = "rm_meta"]
    ELSE after_remove_deleted_metadata(r)

\* set_ignore_status
metadata_ids_delete(stored, ignored_paths) ==
    {stored[i].id : i \in {j \in DOMAIN stored :
        stored[j].status = IGNORED /\ stored[j].file_full_path \notin ignored_paths}}

ignored_create_list(stored, objects, ignored_paths) ==
    LET new == SelectSeq(objects, LAMBDA o : /\ o.full_path \in ignored_paths
                                             /\ o.full_path \notin db_object_paths(stored))
    IN [i \in DOMAIN new |-> [new[i] EXCEPT !.status = IGNORED, !.data_chunks = <<>>]]

ignored_update_list(stored, ignored_paths) ==
    {stored[i].id : i \in {j \in DOMAIN stored :
        stored[j].status # IGNORED /\ stored[j].file_full_path \in ignored_paths}}

\* set_ignore_status after its load, from the given request on: the DELETE
\* ("ignore_delete"), the POST ("ignore_create"), the PATCH ("ignore_update"),
\* then save_newly_added's load ("save").
set_ignore_status(r, from) ==
    LET stored == r.stored_source_metadata
    IN IF from <= 1 /\ metadata_ids_delete(stored, r.ignored_paths) # {}
       THEN [r EXCEPT !.pc = "ignore_delete"]
       ELSE IF from <= 2 /\ ignored_create_list(stored, r.all_src_objects, r.ignored_paths) # <<>>
       THEN [r EXCEPT !.pc = "ignore_create"]
       ELSE IF from <= 3 /\ ignored_update_list(stored, r.ignored_paths) # {}
       THEN [r EXCEPT !.pc = "ignore_update"]
       ELSE [r EXCEPT !.pc = "save"]

\* save_newly_added
db_path_with_etag(stored) ==
    {<<stored[i].file_full_path, stored[i].file_etag>> : i \in DOMAIN stored}

\* A filter that drops every stored object, whatever its status.
filter_stored(stored, objects) ==
    SelectSeq(objects, LAMBDA o : <<o.full_path, o.etag>> \notin
        {<<stored[i].file_full_path, stored[i].file_etag>> : i \in DOMAIN stored})

\* filter_scanned
filter_scanned(stored, objects) ==
    LET db_data == {<<stored[i].file_full_path, stored[i].file_etag>> :
                      i \in {j \in DOMAIN stored : stored[j].status = SCANNED}}
    IN SelectSeq(objects, LAMBDA o : <<o.full_path, o.etag>> \notin db_data)

new_meta(stored, filtered_objects) ==
    SelectSeq(filtered_objects,
              LAMBDA o : <<o.full_path, o.etag>> \notin db_path_with_etag(stored))

\* ------------------------------------------------------------ discovery run
record(r, kind, ids) == [r EXCEPT !.requests = Append(@, <<kind, ids>>)]

\* run_periodic_scanning_task: the chunks waiting for a scan and the newest
\* classifier timestamp; the chunks are scanned when there are any, else the
\* source is searched for changes first.
RunPeriodicScanningTask(a) ==
    /\ agent[a].pc = "idle"
    /\ LET wait_for_scan_objects == get_wait_for_scan_objects
           r == [agent[a] EXCEPT !.rescan_mode = FALSE, !.latest_data_type = catalog]
       IN agent' = [agent EXCEPT ![a] =
                      IF wait_for_scan_objects # <<>>
                      THEN [r EXCEPT !.pool_attrs = wait_for_scan_objects, !.pc = "lease"]
                      ELSE [r EXCEPT !.pc = "load"]]
    /\ jobs' = jobs + 1
    /\ UNCHANGED <<units, world, plane, faults, history>>

\* scanner_preparation: load_stored_metadata.
LoadStoredMetadata(a) ==
    /\ agent[a].pc = "load"
    /\ agent' = [agent EXCEPT ![a] =
                   [@ EXCEPT !.stored_source_metadata = load_stored_metadata,
                             !.requests = <<>>, !.pc = "list"]]
    /\ UNCHANGED <<units, world, plane, jobs, faults, history>>

\* scanner_preparation: get_objects_by_source, then remove_deleted_files_from_db
\* up to its first request.
GetObjectsBySource(a) ==
    /\ agent[a].pc = "list"
    /\ agent' = [agent EXCEPT ![a] =
                   remove_deleted_files_from_db(
                     [@ EXCEPT !.all_src_objects = get_objects_by_source,
                               !.listed = writes])]
    /\ UNCHANGED <<units, world, plane, jobs, faults, history>>

\* remove_deleted_metadata: the DELETE of the records of the paths not listed.
RemoveDeletedMetadata(a) ==
    /\ agent[a].pc = "rm_meta"
    /\ LET r == agent[a]
           ids == meta_ids(r.stored_source_metadata, r.all_src_objects)
       IN /\ delete_file_metadata(ids)
          /\ swept' = swept \cup ids
          /\ agent' = [agent EXCEPT ![a] =
                         [record(r, "delete_metadata", ids) EXCEPT !.pc = "rm_meta_load"]]
    /\ UNCHANGED <<units, world, jobs, faults, seen, watch>>

\* remove_deleted_metadata: load_stored_metadata after the DELETE.
ReloadAfterMetadata(a) ==
    /\ agent[a].pc = "rm_meta_load"
    /\ agent' = [agent EXCEPT ![a] =
                   after_remove_deleted_metadata(
                     [@ EXCEPT !.stored_source_metadata = load_stored_metadata])]
    /\ UNCHANGED <<units, world, plane, jobs, faults, history>>

\* remove_deleted_chunks: the DELETE of the stored chunks whose key is not listed.
RemoveDeletedChunks(a) ==
    /\ agent[a].pc = "rm_chunks"
    /\ LET r == agent[a]
           ids == chunk_ids(r.stored_source_metadata, r.all_src_objects)
       IN /\ delete_chunks_batch(ids)
          /\ agent' = [agent EXCEPT ![a] =
                         [record(r, "delete_chunks", ids) EXCEPT !.pc = "rm_chunks_load"]]
    /\ UNCHANGED <<units, world, jobs, faults, history>>

\* remove_deleted_chunks: load_stored_metadata after the DELETE, then the loop.
ReloadAfterChunks(a) ==
    /\ agent[a].pc = "rm_chunks_load"
    /\ agent' = [agent EXCEPT ![a] =
                   next_object([@ EXCEPT !.stored_source_metadata = load_stored_metadata], 1)]
    /\ UNCHANGED <<units, world, plane, jobs, faults, history>>

\* The loop of remove_deleted_files_from_db: fetch_data and hash_data of the
\* object's next chunk.  hash_data raises on data that could not be read, and
\* the job ends there.
HashChunk(a) ==
    /\ agent[a].pc = "hash"
    /\ LET r == agent[a]
           obj == obj_value(r)
           offsets == hashed_offsets(obj, r.deleted_chunks)
           offset == offsets[Len(r.object_chunks) + 1]
           fetched == fetch_data(obj.full_path, offset)
           r1 == [r EXCEPT !.object_chunks =
                     Append(@, chunk_string(obj.full_path, offset, hash_data(fetched)))]
       IN agent' = [agent EXCEPT ![a] =
                      IF fetched = None THEN AgentInit
                      ELSE IF Len(r1.object_chunks) < Len(offsets) THEN r1
                      ELSE after_hash(r1)]
    /\ UNCHANGED <<units, world, plane, jobs, faults, history>>

\* update_metadata_existing_chunks: the PATCH of the stored chunks whose
\* (full_path, offset, hash) is not among the object's.
UpdateMetadataExistingChunks(a) ==
    /\ agent[a].pc = "update"
    /\ LET r == agent[a]
           to_update == chunks_to_update(r.object_chunks, db_chunks_of(r))
           ids == {db_chunks_of(r)[k] : k \in to_update}
       IN /\ update_chunks_batch(meta_obj(r).id, ids, obj_value(r).size, a)
          /\ agent' = [agent EXCEPT ![a] =
                         after_update([record(r, "update_chunks", {meta_obj(r).id})
                                         EXCEPT !.updated_chunks = to_update])]
    /\ UNCHANGED <<units, world, jobs, faults, history>>

\* create_newly_added_chunks: the POST of the chunks at the offsets that are
\* neither stored nor updated.
CreateNewlyAddedChunks(a) ==
    /\ agent[a].pc = "create"
    /\ LET r == agent[a]
           offsets == chunks_to_create_list(obj_value(r), r.object_chunks,
                                            db_chunks_of(r), r.updated_chunks)
       IN /\ create_chunks_batch(meta_obj(r).id, obj_value(r).size, offsets, a)
          /\ agent' = [agent EXCEPT ![a] =
                         next_object(record(r, "create_chunks", {meta_obj(r).id}),
                                     r.idx + 1)]
    /\ UNCHANGED <<units, world, jobs, faults, history>>

\* filter_objects: the objects the filename classifiers exclude are ignored.
FilterObjectsByClassifications(a) ==
    /\ agent[a].pc = "filter"
    /\ agent' = [agent EXCEPT ![a] =
                   [@ EXCEPT !.ignored_paths =
                                source_objects_paths(agent[a].all_src_objects) \cap excluded,
                             !.pc = "ignore"]]
    /\ UNCHANGED <<units, world, plane, jobs, faults, history>>

\* set_ignore_status: load_stored_metadata.
SetIgnoreStatus(a) ==
    /\ agent[a].pc = "ignore"
    /\ agent' = [agent EXCEPT ![a] =
                   set_ignore_status(
                     [@ EXCEPT !.stored_source_metadata = load_stored_metadata], 1)]
    /\ UNCHANGED <<units, world, plane, jobs, faults, history>>

\* set_ignore_status: the DELETE of the records that are no longer ignored.
DeleteUnignored(a) ==
    /\ agent[a].pc = "ignore_delete"
    /\ LET r == agent[a]
           ids == metadata_ids_delete(r.stored_source_metadata, r.ignored_paths)
       IN /\ delete_file_metadata(ids)
          /\ agent' = [agent EXCEPT ![a] =
                         set_ignore_status(record(r, "delete_unignored", ids), 2)]
    /\ UNCHANGED <<units, world, jobs, faults, history>>

\* set_ignore_status: the POST of IGNORED records for the new ignored objects.
CreateIgnored(a) ==
    /\ agent[a].pc = "ignore_create"
    /\ LET r == agent[a]
       IN /\ save_batch_metadata(
               ignored_create_list(r.stored_source_metadata, r.all_src_objects,
                                   r.ignored_paths), a)
          /\ agent' = [agent EXCEPT ![a] =
                         set_ignore_status(record(r, "create_ignored", {}), 3)]
    /\ UNCHANGED <<units, world, jobs, faults, history>>

\* set_ignore_status: the PATCH of the stored records of the ignored objects.
UpdateWithIgnore(a) ==
    /\ agent[a].pc = "ignore_update"
    /\ LET r == agent[a]
           ids == ignored_update_list(r.stored_source_metadata, r.ignored_paths)
       IN /\ update_with_ignore(ids)
          /\ agent' = [agent EXCEPT ![a] =
                         set_ignore_status(record(r, "update_with_ignore", ids), 4)]
    /\ UNCHANGED <<units, world, jobs, faults, history>>

\* filter_scanned on the records set_ignore_status loaded, then
\* save_newly_added: load_stored_metadata and the objects that are not stored.
SaveNewlyAdded(a) ==
    /\ agent[a].pc = "save"
    /\ LET r == agent[a]
           kept == SelectSeq(r.all_src_objects,
                             LAMBDA o : o.full_path \notin r.ignored_paths)
           filtered_objects == filter_scanned(r.stored_source_metadata, kept)
           stored == load_stored_metadata
           files == new_meta(stored, filtered_objects)
       IN agent' = [agent EXCEPT ![a] =
                      [r EXCEPT !.stored_source_metadata = stored,
                                !.files_to_scan = files,
                                !.pc = IF files # <<>> THEN "save_post" ELSE "requeue"]]
    /\ UNCHANGED <<units, world, plane, jobs, faults, history>>

\* save_newly_added: the POST of the new objects with their chunks.
SaveBatchMetadata(a) ==
    /\ agent[a].pc = "save_post"
    /\ LET r == agent[a]
       IN /\ save_batch_metadata(r.files_to_scan, a)
          /\ agent' = [agent EXCEPT ![a] =
                         [record(r, "create_metadata", {}) EXCEPT !.pc = "requeue"]]
    /\ UNCHANGED <<units, world, jobs, faults, history>>

\* run_periodic_scanning_task after the search for changes: the chunks
\* waiting for a scan, again.
GetWaitForScanObjects(a) ==
    /\ agent[a].pc = "requeue"
    /\ LET wait_for_scan_objects == get_wait_for_scan_objects
       IN agent' = [agent EXCEPT ![a] =
                      IF wait_for_scan_objects = <<>> THEN AgentInit
                      ELSE [AgentInit EXCEPT
                              !.latest_data_type = agent[a].latest_data_type,
                              !.pool_attrs = wait_for_scan_objects,
                              !.pc = "lease"]]
    /\ seen' = agent[a].listed
    /\ watch' = IF agent[a].listed = writes THEN {} ELSE watch
    /\ UNCHANGED <<units, world, plane, jobs, faults, swept>>

\* ------------------------------------------------------------ scan pipeline
current_chunk(r) == Head(r.pool_attrs).current_chunk

\* The job after a chunk: the next chunk of pool_attrs, or the end of the job.
next_chunk(r) ==
    LET rest == Tail(r.pool_attrs)
    IN IF rest = <<>> THEN AgentInit
       ELSE [r EXCEPT !.pool_attrs = rest, !.update_result = FALSE, !.data = None,
                      !.pc = IF r.rescan_mode THEN "fetch" ELSE "lease"]

\* A PATCH keyed on the chunk id alone.
lease_matches_any(chunk_id) == chunk_id \in DOMAIN chunks

\* scanning_update_status with filter_params {'status': WAIT_FOR_SCAN}: the
\* rows the conditional PATCH matches.
lease_matches(chunk_id) ==
    chunk_id \in DOMAIN chunks /\ chunks[chunk_id].status = WAIT_FOR_SCAN

\* A run_scanner that goes on whatever the update returned.
skipped_never(update_result) == FALSE

\* run_scanner: if not update_result: return None
skipped(update_result) == ~update_result

\* run_scanner: the lease, the conditional PATCH of the chunk to IN_PROGRESS.
Lease(a) ==
    /\ agent[a].pc = "lease"
    /\ LET r == agent[a]
           id == current_chunk(r).id
           update_result == lease_matches(id)
       IN /\ chunks' = IF update_result
                       THEN [chunks EXCEPT ![id].status = IN_PROGRESS,
                                           ![id].instance_id = a,
                                           ![id].leases = @ + 1]
                       ELSE IF id \in DOMAIN chunks
                       THEN [chunks EXCEPT ![id].refused = TRUE]
                       ELSE chunks
          /\ agent' = [agent EXCEPT ![a] =
                         IF skipped(update_result) THEN next_chunk(r)
                         ELSE [r EXCEPT !.update_result = update_result, !.pc = "fetch"]]
    /\ UNCHANGED <<units, world, metadata, findings, last_scanned, nextId, jobs, faults, history>>

\* is_not_valid_chunk: data that could not be read, or empty data.
is_not_valid_chunk(chunk) == chunk = None \/ chunk = ""

\* scan_file_object yields sensitive data for the text.
sensitive_data(text) == text = "pii"

\* analyze_content_data: fetch_data, the validity guard and the classifiers.
AnalyzeContentData(a) ==
    /\ agent[a].pc = "fetch"
    /\ LET r == agent[a]
           fetched == fetch_data(Head(r.pool_attrs).full_path, current_chunk(r).offset)
       IN agent' = [agent EXCEPT ![a] =
                      [r EXCEPT !.data = fetched,
                                !.pool_attrs[1].current_chunk.hash =
                                    IF ~is_not_valid_chunk(fetched) /\ r.rescan_mode
                                    THEN None ELSE @,
                                !.pc = IF ~is_not_valid_chunk(fetched) /\ sensitive_data(fetched)
                                       THEN "report" ELSE "save_chunk"]]
    /\ UNCHANGED <<units, world, plane, jobs, faults, history>>

\* run_scanner, start_rescan_task: an exception raised by the fetch or by the
\* classifiers is logged, and the pipeline of the chunk ends.
ScanRaises(a) ==
    /\ agent[a].pc = "fetch"
    /\ faults < MaxFaults
    /\ faults' = faults + 1
    /\ agent' = [agent EXCEPT ![a] = next_chunk(@)]
    /\ UNCHANGED <<units, world, plane, jobs, history>>

\* analyze_content_data: the POST of the chunk's sensitive data.
ReportSensitiveData(a) ==
    /\ agent[a].pc = "report"
    /\ LET id == current_chunk(agent[a]).id
       IN findings' = IF id \in DOMAIN chunks THEN findings \cup {id} ELSE findings
    /\ agent' = [agent EXCEPT ![a] = [@ EXCEPT !.pc = "save_chunk"]]
    /\ UNCHANGED <<units, world, metadata, chunks, last_scanned, nextId, jobs, faults, history>>

\* save_chunk: the body of the PUT, status and scanned_at with the fields of
\* current_chunk that are not None.
saved_chunk(chunk, current, latest_data_type) ==
    [chunk EXCEPT !.status = SCANNED,
                  !.scanned_at = TRUE,
                  !.latest_data_type = latest_data_type,
                  !.instance_id = current.instance_id,
                  !.hash = IF current.hash # None THEN current.hash ELSE @]

\* save_chunk: the PUT of the chunk.
SaveChunk(a) ==
    /\ agent[a].pc = "save_chunk"
    /\ LET r == agent[a]
           id == current_chunk(r).id
       IN /\ chunks' = IF id \in DOMAIN chunks
                       THEN [chunks EXCEPT ![id] =
                               saved_chunk(@, current_chunk(r), r.latest_data_type)]
                       ELSE chunks
          /\ agent' = [agent EXCEPT ![a] =
                         IF r.rescan_mode THEN next_chunk(r) ELSE [r EXCEPT !.pc = "last"]]
    /\ UNCHANGED <<units, world, metadata, findings, last_scanned, nextId, jobs, faults, history>>

\* update_classification_group_with_last_scanned: the PUT of last_scanned.
UpdateLastScanned(a) ==
    /\ agent[a].pc = "last"
    /\ last_scanned' = TRUE
    /\ agent' = [agent EXCEPT ![a] = next_chunk(@)]
    /\ UNCHANGED <<units, world, metadata, chunks, findings, nextId, jobs, faults, history>>

\* rescan_by_data_type_task: the agent's chunks to rescan, each through
\* start_rescan_task, the pipeline without lease and last_scanned.
RescanByDataTypeTask(a) ==
    /\ agent[a].pc = "idle"
    /\ rescan_chunks(a) # <<>>
    /\ agent' = [agent EXCEPT ![a] =
                   [@ EXCEPT !.rescan_mode = TRUE, !.latest_data_type = catalog,
                             !.pool_attrs = rescan_chunks(a), !.pc = "fetch"]]
    /\ jobs' = jobs + 1
    /\ UNCHANGED <<units, world, plane, faults, history>>

\* ------------------------------------------------------------ specification
InitAgents ==
    /\ source = <<>>
    /\ writes = 0
    /\ excluded = {}
    /\ catalog = 1
    /\ metadata = <<>>
    /\ chunks = <<>>
    /\ findings = {}
    /\ last_scanned = FALSE
    /\ nextId = 1
    /\ agent = [a \in Agents |-> AgentInit]
    /\ jobs = 0
    /\ faults = 0
    /\ swept = {}
    /\ seen = -1
    /\ watch = {}

\* No connector has planned anything.
InitUnits ==
    /\ planned = <<>>
    /\ fetching = <<>>
    /\ scheduler = <<>>
    /\ pool = <<>>
    /\ client = <<>>
    /\ analysis = <<>>
    /\ archive = <<>>
    /\ masking = <<>>
    /\ matcher = <<>>
    /\ batching = <<>>
    /\ process = <<>>
    /\ detection = <<>>
    /\ extraction = <<>>
    /\ filtering = <<>>

Init == InitAgents /\ InitUnits

\* Several agents, the outside world writing at any moment.
Next ==
    \/ \E p \in SharedPaths, o \in SharedObjects : writes < MaxWrites /\ PutObject(p, o)
    \/ \E p \in SharedPaths : writes < MaxWrites /\ DeleteObject(p)
    \/ EditCatalog
    \/ \E a \in Agents :
         \/ jobs < MaxJobs /\ RunPeriodicScanningTask(a)
         \/ jobs < MaxJobs /\ RescanByDataTypeTask(a)
         \/ LoadStoredMetadata(a)
         \/ GetObjectsBySource(a)
         \/ RemoveDeletedMetadata(a)
         \/ ReloadAfterMetadata(a)
         \/ RemoveDeletedChunks(a)
         \/ ReloadAfterChunks(a)
         \/ HashChunk(a)
         \/ UpdateMetadataExistingChunks(a)
         \/ CreateNewlyAddedChunks(a)
         \/ FilterObjectsByClassifications(a)
         \/ SetIgnoreStatus(a)
         \/ DeleteUnignored(a)
         \/ CreateIgnored(a)
         \/ UpdateWithIgnore(a)
         \/ SaveNewlyAdded(a)
         \/ SaveBatchMetadata(a)
         \/ GetWaitForScanObjects(a)
         \/ Lease(a)
         \/ AnalyzeContentData(a)
         \/ ScanRaises(a)
         \/ ReportSensitiveData(a)
         \/ SaveChunk(a)
         \/ UpdateLastScanned(a)

Spec == Init /\ [][Next]_vars

\* One agent working alone, the outside world writing between its jobs.
NextSeq ==
    \/ \E p \in Paths, o \in Objects :
         agent[1].pc = "idle" /\ writes < MaxSeqWrites /\ PutObject(p, o)
    \/ \E p \in Paths : agent[1].pc = "idle" /\ writes < MaxSeqWrites /\ DeleteObject(p)
    \/ jobs < MaxSeqJobs /\ RunPeriodicScanningTask(1)
    \/ LoadStoredMetadata(1)
    \/ GetObjectsBySource(1)
    \/ RemoveDeletedMetadata(1)
    \/ ReloadAfterMetadata(1)
    \/ RemoveDeletedChunks(1)
    \/ ReloadAfterChunks(1)
    \/ HashChunk(1)
    \/ UpdateMetadataExistingChunks(1)
    \/ CreateNewlyAddedChunks(1)
    \/ FilterObjectsByClassifications(1)
    \/ SetIgnoreStatus(1)
    \/ SaveNewlyAdded(1)
    \/ SaveBatchMetadata(1)
    \/ GetWaitForScanObjects(1)
    \/ Lease(1)
    \/ AnalyzeContentData(1)
    \/ ReportSensitiveData(1)
    \/ SaveChunk(1)
    \/ UpdateLastScanned(1)

SpecSeq == Init /\ [][NextSeq]_vars

\* --------------------------------------------------------------- properties
in_pipeline(r) == r.pc \in {"fetch", "report", "save_chunk", "last"}

\* C1: when several agents attempt to lease the same WAIT_FOR_SCAN chunk, at
\* most one conditional update WAIT_FOR_SCAN -> IN_PROGRESS matches it, and an
\* agent whose update matched no row does nothing further for the chunk: a
\* scanning agent is at the fetch, the findings POST, the finalising PUT or the
\* last_scanned PUT of a chunk only when its own update matched.
C1_LeaseIsExclusive ==
    /\ \A c \in DOMAIN chunks : chunks[c].leases <= 1
    /\ \A a \in Agents :
         (~agent[a].rescan_mode /\ in_pipeline(agent[a])) => agent[a].update_result

\* Two agents attempted the lease of one chunk: one update matched, one did not.
C1_Witness ==
    \E c \in DOMAIN chunks : chunks[c].leases = 1 /\ chunks[c].refused

Statuses == {WAIT_FOR_SCAN, IN_PROGRESS, SCANNED, IGNORED, SKIPPED, FAILED}

ClaimedTransitions ==
    {<<WAIT_FOR_SCAN, IN_PROGRESS>>, <<IN_PROGRESS, WAIT_FOR_SCAN>>,
     <<IN_PROGRESS, SCANNED>>} \cup (Statuses \X {IGNORED, SKIPPED, FAILED})

status_changes_within(transitions) ==
    \A c \in DOMAIN chunks \cap DOMAIN chunks' :
        chunks[c].status # chunks'[c].status =>
            <<chunks[c].status, chunks'[c].status>> \in transitions

C3_LeaseReleased ==
    \A a \in Agents :
        agent[a].pc = "idle" =>
            \A c \in DOMAIN chunks :
                ~(chunks[c].status = IN_PROGRESS /\ chunks[c].instance_id = a)

\* C4: a chunk's stored hash is present exactly when the chunk has passed the
\* scan pipeline (scanned_at is set) since it was created or last reset.
C4_HashIffScanned ==
    \A c \in DOMAIN chunks : (chunks[c].hash # None) <=> chunks[c].scanned_at

\* The requests of remove_deleted_files_from_db that name chunks.
chunk_requests == {"delete_chunks", "update_chunks", "create_chunks"}

\* C5: a discovery run over a source that is as the previous completed run
\* listed it issues no request that creates, updates or deletes a chunk.
C5_SecondRunIdle ==
    \A a \in Agents :
        (agent[a].pc = "requeue" /\ agent[a].listed = writes /\ seen = writes) =>
            \A i \in DOMAIN agent[a].requests :
                agent[a].requests[i][1] \notin chunk_requests

\* The stored records whose full_path is not among the listed objects'.
absent_records(stored, fetched_objects) ==
    {stored[i].id : i \in {j \in DOMAIN stored :
        stored[j].file_full_path \notin source_objects_paths(fetched_objects)}}

\* C6: the tombstone DELETE of a discovery run names exactly the stored
\* records whose full_path is absent from the listing, and is the first
\* mutating request of the run.
C6_TombstoneExact ==
    \A a \in Agents :
        agent[a].pc = "rm_meta" =>
            /\ meta_ids(agent[a].stored_source_metadata, agent[a].all_src_objects)
                 = absent_records(agent[a].stored_source_metadata, agent[a].all_src_objects)
            /\ agent[a].requests = <<>>

\* C7: once a tombstone sweep has deleted an object, no agent's conditional
\* update matches, posts findings for, or finalises a chunk of that object.
C7_NoPhantomWorker ==
    [][\A a \in Agents :
          (/\ agent[a].pc \in {"lease", "report", "save_chunk"}
           /\ agent'[a] # agent[a]
           /\ current_chunk(agent[a]).metadata_id \in swept)
          => (agent[a].pc = "lease" /\ ~in_pipeline(agent'[a]))]_vars

\* C8: the control plane holds at most one metadata record for each
\* (full_path, etag).
C8_UniquePathEtag ==
    \A m, n \in DOMAIN metadata :
        (/\ metadata[m].file_full_path = metadata[n].file_full_path
         /\ metadata[m].file_etag = metadata[n].file_etag) => m = n

\* The chunk positions whose content the watched put changed.
changed_chunks(w) ==
    {i \in DOMAIN source[w.path].data :
        i \notin DOMAIN w.old.data \/ source[w.path].data[i] # w.old.data[i]}

\* C9: after the discovery run that follows a put which changed one chunk of
\* a fully scanned object and kept its size, exactly that chunk is
\* WAIT_FOR_SCAN with its hash cleared, and the object's other chunks are SCANNED.
C9_ChangedChunkReset ==
    \A a \in Agents : \A w \in watch :
        (/\ agent[a].pc = "requeue" /\ agent[a].listed = writes
         /\ source[w.path].size = w.old.size
         /\ Cardinality(changed_chunks(w)) = 1)
        => \A c \in w.ids :
             /\ c \in DOMAIN chunks
             /\ IF (chunks[c].offset \div CHUNK_BYTES_CAPACITY) + 1 \in changed_chunks(w)
                THEN chunks[c].status = WAIT_FOR_SCAN /\ chunks[c].hash = None
                ELSE chunks[c].status = SCANNED

\* The positions of the requests of a kind for a metadata record.
requests_at(r, kind, metadata_id) ==
    {i \in DOMAIN r.requests : r.requests[i] = <<kind, {metadata_id}>>}

\* C10: after the discovery run that follows a put which grew a fully scanned
\* object, the object's record holds WAIT_FOR_SCAN chunks at exactly the new
\* offsets, created after the update step, and its previously stored chunks
\* are as they were, SCANNED.
C10_GrowthCreatesOnly ==
    \A a \in Agents : \A w \in watch :
        (/\ agent[a].pc = "requeue" /\ agent[a].listed = writes
         /\ chunk_count(source[w.path].size) > chunk_count(w.old.size))
        => \A m \in {chunks[c].metadata_id : c \in w.ids \cap DOMAIN chunks} :
             LET old_offsets == Range(create_file_chunks(w.old.size))
                 new_offsets == Range(create_file_chunks(source[w.path].size)) \ old_offsets
                 created == {c \in DOMAIN chunks \ w.ids : chunks[c].metadata_id = m}
             IN /\ {chunks[c].offset : c \in created} = new_offsets
                /\ \A c \in created : chunks[c].status = WAIT_FOR_SCAN
                /\ requests_at(agent[a], "create_chunks", m) # {}
                /\ \A i \in requests_at(agent[a], "update_chunks", m) :
                     \A j \in requests_at(agent[a], "create_chunks", m) : i < j
                /\ \A c \in w.ids :
                     /\ c \in DOMAIN chunks
                     /\ chunks[c].status = SCANNED
                     /\ chunks[c].scanned_at

\* --------------------------------------------------------------- chunk plan
MaxPlanChunks == 3      \* chunks of the largest object a connector plans

CHUNK_ROWS_CAPACITY == 100000

CHUNK_JSON_CAPACITY == 1000

Kinds == {"blob", "table", "document"}

\* The limit of a chunk of each kind, settings.CHUNK_*_CAPACITY.
limit_of(kind) ==
    CASE kind = "blob" -> CHUNK_BYTES_CAPACITY
      [] kind = "table" -> CHUNK_ROWS_CAPACITY
      [] kind = "document" -> CHUNK_JSON_CAPACITY

\* math.ceil(n / capacity)
ceil(n, capacity) == (n + capacity - 1) \div capacity

\* range(count) mapped to DataChunk(offset = i * capacity, limit = capacity).
data_chunks_of(count, capacity) ==
    [i \in 1..count |-> [offset |-> (i - 1) * capacity, limit |-> capacity]]

\* FileService.create_file_chunks for an object that is not a container:
\* nothing for an unsupported extension or for no size.
file_chunks(unsupported, size) ==
    IF unsupported THEN <<>>
    ELSE IF size = 0 THEN <<>>
    ELSE data_chunks_of(Len(create_file_chunks(size)), CHUNK_BYTES_CAPACITY)

\* DynamoDBService.create_object_chunks: planned from the number of items.
create_object_chunks(size, items_number) ==
    IF size = 0 \/ items_number = 0 THEN <<>>
    ELSE data_chunks_of(ceil(items_number, CHUNK_ROWS_CAPACITY), CHUNK_ROWS_CAPACITY)

\* DocumentDBService.create_object_chunks: planned from count_documents.
documentdb_create_object_chunks(size, total_docs) ==
    IF size = 0 THEN <<>>
    ELSE data_chunks_of(ceil(total_docs, CHUNK_JSON_CAPACITY), CHUNK_JSON_CAPACITY)

\* Sizes at and next to the multiples of a capacity.
sizes_around(capacity) ==
    {n \in UNION {{k * capacity - 1, k * capacity, k * capacity + 1} :
                     k \in 0..MaxPlanChunks} : n >= 0 /\ n <= MaxPlanChunks * capacity}

\* The objects a connector discovers: size is what the source reports for the
\* object (bytes), count what its chunks are planned from (bytes of a blob,
\* items of a table, documents of a collection).
Discovered ==
    UNION {[kind : {k}, unsupported : IF k = "blob" THEN BOOLEAN ELSE {FALSE},
            size : IF k = "blob" THEN sizes_around(CHUNK_BYTES_CAPACITY) ELSE {0, 4096},
            count : sizes_around(limit_of(k))] : k \in Kinds}

InitPlan ==
    /\ InitAgents
    /\ fetching = <<>>
    /\ scheduler = <<>>
    /\ pool = <<>>
    /\ client = <<>>
    /\ analysis = <<>>
    /\ archive = <<>>
    /\ masking = <<>>
    /\ matcher = <<>>
    /\ batching = <<>>
    /\ process = <<>>
    /\ detection = <<>>
    /\ extraction = <<>>
    /\ filtering = <<>>
    /\ \E o \in Discovered :
         /\ o.kind = "blob" => o.count = o.size
         /\ planned = [object |-> o, done |-> FALSE, data_chunks |-> <<>>]

CollectFileChunks ==
    /\ ~planned.done /\ planned.object.kind = "blob"
    /\ planned' = [planned EXCEPT !.done = TRUE,
                     !.data_chunks = file_chunks(planned.object.unsupported,
                                                 planned.object.size)]
    /\ UNCHANGED <<cycle, fetching, scheduler, pool, client, analysis, archive, masking, matcher, batching, process, detection, extraction, filtering>>

DescribeTable ==
    /\ ~planned.done /\ planned.object.kind = "table"
    /\ planned' = [planned EXCEPT !.done = TRUE,
                     !.data_chunks = create_object_chunks(planned.object.size,
                                                          planned.object.count)]
    /\ UNCHANGED <<cycle, fetching, scheduler, pool, client, analysis, archive, masking, matcher, batching, process, detection, extraction, filtering>>

CountDocuments ==
    /\ ~planned.done /\ planned.object.kind = "document"
    /\ planned' = [planned EXCEPT !.done = TRUE,
                     !.data_chunks = documentdb_create_object_chunks(
                                        planned.object.size, planned.object.count)]
    /\ UNCHANGED <<cycle, fetching, scheduler, pool, client, analysis, archive, masking, matcher, batching, process, detection, extraction, filtering>>

NextPlan == CollectFileChunks \/ DescribeTable \/ CountDocuments

SpecPlan == InitPlan /\ [][NextPlan]_vars

\* The offsets {0, L, 2L, ..., floor((s - 1) / L) * L}.
tiling(s, L) == {k * L : k \in 0..((s - 1) \div L)}

OVERLAP_BYTES == 255

\* How fetch_data reads a blob: a plain object by byte range, a container
\* (.csv, .pdf, ...) or a file of an unpacked archive whole.
BlobTypes == {"plain", "container", "archive"}

\* Content is held as the positions [from, to) of the object's text it covers,
\* an optional content as a set of at most one; decoding keeps one character
\* per byte.
length(d) == d.to - d.from

\* d[a : b] for 0 <= a <= b
slice(d, a, b) ==
    [from |-> d.from + Min({a, length(d)}), to |-> d.from + Min({b, length(d)})]

\* read_data_chunk: GET with Range bytes=offset-(offset+limit), both ends
\* included; no data (the empty set) when the range starts beyond the object.
read_data_chunk(size, limit, offset) ==
    IF offset >= size THEN {}
    ELSE {[from |-> offset, to |-> Min({size, offset + limit + 1})]}

\* read_data: the whole object.
read_data(size) == {[from |-> 0, to |-> size]}

\* prepare_file: the decoded text [offset : offset + limit].
prepare_file(object_data, limit, offset) ==
    {slice(d, offset, offset + limit) : d \in object_data}

\* The chunks of the blobs discovery plans: an object and one of its offsets.
FetchInputs ==
    {[type |-> t, size |-> s, offset |-> o] :
        t \in BlobTypes,
        s \in sizes_around(CHUNK_BYTES_CAPACITY) \ {0},
        o \in {k * CHUNK_BYTES_CAPACITY : k \in 0..MaxPlanChunks}} 

InitFetch ==
    /\ InitAgents
    /\ planned = <<>>
    /\ scheduler = <<>>
    /\ pool = <<>>
    /\ client = <<>>
    /\ analysis = <<>>
    /\ archive = <<>>
    /\ masking = <<>>
    /\ matcher = <<>>
    /\ batching = <<>>
    /\ process = <<>>
    /\ detection = <<>>
    /\ extraction = <<>>
    /\ filtering = <<>>
    /\ \E c \in {i \in FetchInputs : i.offset \in Range(create_file_chunks(i.size))} :
         fetching = [chunk |-> c, pc |-> "fetch_data", limit |-> CHUNK_BYTES_CAPACITY,
                    offset |-> c.offset, object_data |-> {}, data |-> {}]

\* fetch_data up to the read: the overlap is added to limit and taken from
\* offset, then the object is read by range or whole.
FetchData ==
    /\ fetching.pc = "fetch_data"
    /\ LET o == fetching.chunk.offset
           limit == IF o > 0 THEN fetching.limit + OVERLAP_BYTES ELSE fetching.limit
           offset == IF o > 0 THEN o - OVERLAP_BYTES ELSE o
           object_data == IF fetching.chunk.type = "plain"
                          THEN read_data_chunk(fetching.chunk.size, limit, offset)
                          ELSE read_data(fetching.chunk.size)
       IN fetching' = [fetching EXCEPT !.limit = limit, !.offset = offset,
                                     !.object_data = object_data,
                                     !.pc = IF object_data = {} THEN "done"
                                            ELSE "prepare_file"]
    /\ UNCHANGED <<cycle, planned, scheduler, pool, client, analysis, archive, masking, matcher, batching, process, detection, extraction, filtering>>

\* fetch_data's return: prepare_file(object_data, fetch_path, limit, offset).
PrepareFile ==
    /\ fetching.pc = "prepare_file"
    /\ fetching' = [fetching EXCEPT
                     !.data = prepare_file(fetching.object_data, fetching.limit, fetching.offset),
                     !.pc = "done"]
    /\ UNCHANGED <<cycle, planned, scheduler, pool, client, analysis, archive, masking, matcher, batching, process, detection, extraction, filtering>>

NextFetch == FetchData \/ PrepareFile

SpecFetch == InitFetch /\ [][NextFetch]_vars

\* C12: the content fetch_data hands on for a blob chunk at offset o with
\* limit L is the object's bytes from o - 255 up to o + L when o > 0, and from
\* 0 up to L when o = 0 (up to the end of the object when that comes first).
C12_FetchWindow ==
    fetching.pc = "done" =>
        LET o == fetching.chunk.offset
        IN fetching.data = {[from |-> IF o > 0 THEN o - OVERLAP_BYTES ELSE 0,
                             to |-> Min({o + CHUNK_BYTES_CAPACITY, fetching.chunk.size})]}


(***************************************************************************)
(* The foreground scheduler of one agent: core/scheduler.py,               *)
(* customer_worker.py, worker_tasks/redis_jobs.py and the tail of          *)
(* worker_tasks/redis_tasks.py.  Time is counted in seconds; the clock     *)
(* moves in steps of one detection period.                                 *)
(***************************************************************************)
MaxTicks == 1
max_workers == 1
max_instances == 1
detect_minutes == 15
scanning_period_minutes == 15
expires_in == 300

seconds(minutes) == 60 * minutes
MaxClock == MaxTicks * seconds(detect_minutes)

\* the (account, service, classification) tuples the control plane can list;
\* they are one classification of a group with two service ids
JobArgsOrder ==
    << [account_id |-> "org1", supported_service |-> "GitHub", classification_id |-> "c2"],
       [account_id |-> "org2", supported_service |-> "GitHub", classification_id |-> "c2"] >>
JobArgs == Range(JobArgsOrder)
NoArgs == [account_id |-> "", supported_service |-> "", classification_id |-> ""]

\* DataClassificationSourcesResponse.scanning_period_minutes: a classification
\* keeps the default or declares, say, twice as much
Periods == {scanning_period_minutes, 2 * scanning_period_minutes}

\* refresh_shared_secret: the token is renewed after two thirds of its life
token_period == (expires_in * 2) \div 3

new_job(id, func, kwargs, trigger, interval, next_run_time) ==
    [id |-> id, func |-> func, kwargs |-> kwargs, trigger |-> trigger,
     interval |-> interval, next_run_time |-> next_run_time]

new_run(job, clock) ==
    [id |-> job.id, func |-> job.func, kwargs |-> job.kwargs, pc |-> "start",
     start_time |-> clock, period |-> scanning_period_minutes, scanned |-> FALSE,
     todo |-> <<>>]

live_ids(s) ==
    {j.id : j \in s.jobstore} \cup {r.id : r \in Range(s.queue)} \cup {r.id : r \in s.running}

\* uuid4().hex of a job added without an id: a value no live job carries
uuid(s) ==
    LET n == CHOOSE k \in 1..(Cardinality(live_ids(s)) + 1) :
                 ("uuid" \o ToString(k)) \notin live_ids(s)
    IN  "uuid" \o ToString(n)

instances(s, id) ==
    Cardinality({i \in 1..Len(s.queue) : s.queue[i].id = id})
        + Cardinality({r \in s.running : r.id = id})

\* IntervalTrigger.get_next_fire_time: the first fire time after now
next_fire_time(job, now) ==
    LET missed == ((now - job.next_run_time) \div job.interval) + 1
    IN  job.next_run_time + missed * job.interval

free_worker_two(running) == Cardinality(running) < max_workers + 1
free_worker(running) == Cardinality(running) < max_workers

is_new_job_always(args, listed) == TRUE
is_new_job(args, listed) == args \notin listed

\* customer_worker.main: the three jobs the agent starts with
InitScheduler ==
    scheduler =
        [clock |-> 0,
         jobstore |->
            { new_job("refresh_shared_secret_id", "token_refresher_job", NoArgs,
                      "interval", token_period, token_period),
              new_job("detect", "detect_new_tasks_job", NoArgs,
                      "interval", seconds(detect_minutes), 0),
              new_job("rescan", "rescan_by_data_type_task", NoArgs,
                      "interval", seconds(detect_minutes), 0) },
         queue |-> <<>>,
         running |-> {},
         list_of_job_args |-> {},
         abandoned |-> {},
         deduplicated |-> FALSE]

InitSched ==
    /\ InitAgents
    /\ planned = <<>>
    /\ fetching = <<>>
    /\ pool = <<>>
    /\ client = <<>>
    /\ analysis = <<>>
    /\ archive = <<>>
    /\ masking = <<>>
    /\ matcher = <<>>
    /\ batching = <<>>
    /\ process = <<>>
    /\ detection = <<>>
    /\ extraction = <<>>
    /\ filtering = <<>>
    /\ InitScheduler

Tick ==
    /\ scheduler.clock < MaxClock
    /\ scheduler' = [scheduler EXCEPT !.clock = @ + seconds(detect_minutes)]
    /\ UNCHANGED <<cycle, planned, fetching, pool, client, analysis, archive, masking, matcher, batching, process, detection, extraction, filtering>>

\* BaseScheduler._process_jobs for one due job: the job is handed to the
\* executor unless max_instances runs of its id are in flight, then it gets
\* its next fire time or, having none, leaves the job store
submit_job(s, job) ==
    LET refused == instances(s, job.id) >= max_instances
        rest == s.jobstore \ {job}
    IN  [s EXCEPT
            !.queue = IF refused THEN @ ELSE Append(@, new_run(job, s.clock)),
            !.jobstore =
                IF job.trigger = "interval"
                THEN rest \cup {[job EXCEPT !.next_run_time = next_fire_time(job, s.clock)]}
                ELSE rest]

\* MemoryJobStore.get_due_jobs: the due jobs come in the order of their run
\* times; jobs of one run time come in the order of their (random) ids
due_jobs(s) == {j \in s.jobstore : j.next_run_time <= s.clock}

first_due(s) ==
    {j \in due_jobs(s) : \A k \in due_jobs(s) : j.next_run_time <= k.next_run_time}

RECURSIVE process_jobs(_)
process_jobs(s) ==
    IF due_jobs(s) = {} THEN {s}
    ELSE UNION {process_jobs(submit_job(s, job)) : job \in first_due(s)}

\* one pass of the scheduler thread over the due jobs, under the lock of
\* the job stores
ProcessJobs ==
    /\ due_jobs(scheduler) # {}
    /\ \E s \in process_jobs(scheduler) : scheduler' = s
    /\ UNCHANGED <<cycle, planned, fetching, pool, client, analysis, archive, masking, matcher, batching, process, detection, extraction, filtering>>

\* ThreadPoolExecutor(1): a worker thread takes the oldest submitted run
StartJob ==
    /\ scheduler.queue # <<>>
    /\ free_worker(scheduler.running)
    /\ scheduler' = [scheduler EXCEPT
           !.queue = Tail(@),
           !.running = @ \cup {Head(scheduler.queue)}]
    /\ UNCHANGED <<cycle, planned, fetching, pool, client, analysis, archive, masking, matcher, batching, process, detection, extraction, filtering>>

\* refresh_shared_secret: two thirds of the token's life, None when the
\* request to the token endpoint or the reading of its answer raises
refresh_shared_secret(answered) == IF answered THEN token_period ELSE None

\* token_refresher_job: the interval job is removed and added again with
\* the period refresh_shared_secret returned; IntervalTrigger(seconds=None)
\* raises, and then no job is added
TokenRefresherJob ==
    \E run \in scheduler.running, answered \in BOOLEAN :
        /\ run.func = "token_refresher_job"
        /\ LET period == refresh_shared_secret(answered)
               removed == {j \in scheduler.jobstore : j.id # "refresh_shared_secret_id"}
           IN  scheduler' = [scheduler EXCEPT
                   !.running = @ \ {run},
                   !.jobstore =
                       IF answered
                       THEN removed \cup
                            {new_job("refresh_shared_secret_id", "token_refresher_job", NoArgs,
                                     "interval", period, scheduler.clock + period)}
                       ELSE removed]
        /\ UNCHANGED <<cycle, planned, fetching, pool, client, analysis, archive, masking, matcher, batching, process, detection, extraction, filtering>>

\* detect_new_tasks_job up to its loop: the classification groups answered
\* by the control plane give the tuples the loop visits
DetectNewTasks ==
    \E run \in scheduler.running, answer \in SUBSET JobArgs :
        /\ run.func = "detect_new_tasks_job"
        /\ run.pc = "start"
        /\ scheduler' = [scheduler EXCEPT
               !.running = (@ \ {run}) \cup
                   {[run EXCEPT !.pc = "loop",
                                !.todo = SelectSeq(JobArgsOrder, LAMBDA k : k \in answer)]}]
        /\ UNCHANGED <<cycle, planned, fetching, pool, client, analysis, archive, masking, matcher, batching, process, detection, extraction, filtering>>

\* one turn of the loop of detect_new_tasks_job: a tuple not yet listed is
\* listed and then added under the id of its classification; add_job raises
\* when the job store holds that id, which ends the run
AddDetected ==
    \E run \in scheduler.running :
        /\ run.func = "detect_new_tasks_job"
        /\ run.pc = "loop"
        /\ run.todo # <<>>
        /\ LET args == Head(run.todo)
               id == args.classification_id
               conflict == id \in {j.id : j \in scheduler.jobstore}
               next == [run EXCEPT !.todo = Tail(@)]
           IN  IF ~is_new_job(args, scheduler.list_of_job_args)
               THEN scheduler' = [scheduler EXCEPT
                        !.running = (@ \ {run}) \cup {next},
                        !.deduplicated = TRUE]
               ELSE IF conflict
               THEN scheduler' = [scheduler EXCEPT
                        !.running = @ \ {run},
                        !.list_of_job_args = @ \cup {args}]
               ELSE scheduler' = [scheduler EXCEPT
                        !.running = (@ \ {run}) \cup {next},
                        !.list_of_job_args = @ \cup {args},
                        !.jobstore = @ \cup
                            {new_job(id, "run_periodic_scanning_task", args, "date", 0,
                                     scheduler.clock)}]
        /\ UNCHANGED <<cycle, planned, fetching, pool, client, analysis, archive, masking, matcher, batching, process, detection, extraction, filtering>>

EndDetection ==
    \E run \in scheduler.running :
        /\ run.func = "detect_new_tasks_job"
        /\ run.pc = "loop"
        /\ run.todo = <<>>
        /\ scheduler' = [scheduler EXCEPT !.running = @ \ {run}]
        /\ UNCHANGED <<cycle, planned, fetching, pool, client, analysis, archive, masking, matcher, batching, process, detection, extraction, filtering>>

\* start_rescan_task: without chunks to rescan it returns, otherwise it
\* rescans them and adds one more run of itself, due at once
RescanByDataType ==
    \E run \in scheduler.running, chunks_to_rescan \in BOOLEAN :
        /\ run.func = "rescan_by_data_type_task"
        /\ scheduler' = [scheduler EXCEPT
               !.running = @ \ {run},
               !.jobstore =
                   IF chunks_to_rescan
                   THEN @ \cup {new_job(uuid(scheduler), "rescan_by_data_type_task", NoArgs,
                                        "date", 0, scheduler.clock)}
                   ELSE @]
        /\ UNCHANGED <<cycle, planned, fetching, pool, client, analysis, archive, masking, matcher, batching, process, detection, extraction, filtering>>

\* run_periodic_scanning_task up to the queue of chunks waiting for a scan:
\* the sources are read (the request may raise or bring nothing), then the
\* chunks waiting for a scan are asked for
GetClassificationSources ==
    \E run \in scheduler.running, answer \in {"raises", "nothing", "sources"},
       period \in Periods, wait_for_scan_objects \in BOOLEAN :
        /\ run.func = "run_periodic_scanning_task"
        /\ run.pc = "start"
        /\ answer # "sources" => period = scanning_period_minutes
        /\ scheduler' =
              IF answer = "sources"
              THEN [scheduler EXCEPT
                       !.running = (@ \ {run}) \cup
                           {[run EXCEPT !.start_time = scheduler.clock,
                                        !.period = period,
                                        !.scanned = wait_for_scan_objects,
                                        !.pc = IF wait_for_scan_objects THEN "pool"
                                               ELSE "search"]}]
              ELSE [scheduler EXCEPT
                       !.running = @ \ {run},
                       !.abandoned = @ \cup {run.kwargs}]
        /\ UNCHANGED <<cycle, planned, fetching, pool, client, analysis, archive, masking, matcher, batching, process, detection, extraction, filtering>>

\* search_for_changes over the sources, then the queue is read again; an
\* exception of a connector, a fetch or a hash leaves the task
SearchForChanges ==
    \E run \in scheduler.running, raises \in BOOLEAN, wait_for_scan_objects \in BOOLEAN :
        /\ run.func = "run_periodic_scanning_task"
        /\ run.pc = "search"
        /\ scheduler' =
              IF raises
              THEN [scheduler EXCEPT
                       !.running = @ \ {run},
                       !.abandoned = @ \cup {run.kwargs}]
              ELSE [scheduler EXCEPT
                       !.running = (@ \ {run}) \cup
                           {[run EXCEPT !.scanned = wait_for_scan_objects,
                                        !.pc = IF wait_for_scan_objects THEN "pool"
                                               ELSE "add_job"]}]
        /\ UNCHANGED <<cycle, planned, fetching, pool, client, analysis, archive, masking, matcher, batching, process, detection, extraction, filtering>>

\* mp_pool.starmap returns
StarMap ==
    \E run \in scheduler.running :
        /\ run.func = "run_periodic_scanning_task"
        /\ run.pc = "pool"
        /\ scheduler' = [scheduler EXCEPT
               !.running = (@ \ {run}) \cup {[run EXCEPT !.pc = "add_job"]}]
        /\ UNCHANGED <<cycle, planned, fetching, pool, client, analysis, archive, masking, matcher, batching, process, detection, extraction, filtering>>

next_start_time_later(run) == run.start_time + seconds(run.period)
next_start_time(run) ==
    IF run.scanned THEN run.start_time
    ELSE run.start_time + seconds(run.period)

\* the end of run_periodic_scanning_task: the next run is added, due at the
\* start of this run, or one period later when the pool had nothing to do
AddNextTask ==
    \E run \in scheduler.running :
        /\ run.func = "run_periodic_scanning_task"
        /\ run.pc = "add_job"
        /\ LET start_time == next_start_time(run)
           IN  scheduler' = [scheduler EXCEPT
                   !.running = @ \ {run},
                   !.jobstore = @ \cup
                       {new_job(uuid(scheduler), "run_periodic_scanning_task", run.kwargs,
                                "date", 0, start_time)}]
        /\ UNCHANGED <<cycle, planned, fetching, pool, client, analysis, archive, masking, matcher, batching, process, detection, extraction, filtering>>

NextSched ==
    \/ Tick
    \/ ProcessJobs
    \/ StartJob
    \/ TokenRefresherJob
    \/ DetectNewTasks
    \/ AddDetected
    \/ EndDetection
    \/ RescanByDataType
    \/ GetClassificationSources
    \/ SearchForChanges
    \/ StarMap
    \/ AddNextTask

SpecSched == InitSched /\ [][NextSched]_vars

foreground == {"detect_new_tasks_job", "rescan_by_data_type_task",
               "token_refresher_job", "run_periodic_scanning_task"}

\* C13: on one agent at most one foreground job (the detection of new
\* tasks, the rescan by data type, the token refresh or a job of a
\* classification) is executing at any time.
C13_OneForegroundJob ==
    Cardinality({r \in scheduler.running : r.func \in foreground}) <= 1

C13_Witness ==
    /\ \E r \in scheduler.running : r.func = "run_periodic_scanning_task"
    /\ \E i \in 1..Len(scheduler.queue) : scheduler.queue[i].func = "detect_new_tasks_job"

\* the jobs of one tuple that are pending in the job store, submitted to the
\* executor or running
pending_or_running(s, kwargs) ==
    Cardinality({j \in s.jobstore :
                    j.func = "run_periodic_scanning_task" /\ j.kwargs = kwargs})
        + Cardinality({i \in 1..Len(s.queue) :
                    s.queue[i].func = "run_periodic_scanning_task" /\ s.queue[i].kwargs = kwargs})
        + Cardinality({r \in s.running :
                    r.func = "run_periodic_scanning_task" /\ r.kwargs = kwargs})

\* C14: every (account, service, classification) tuple has at most one job
\* of its classification pending or running, however often the detection of
\* new tasks sees the tuple again.
C14_OneJobPerTuple ==
    \A kwargs \in JobArgs : pending_or_running(scheduler, kwargs) <= 1

C14_Witness ==
    /\ scheduler.deduplicated
    /\ \E j \in scheduler.jobstore :
          /\ j.func = "run_periodic_scanning_task"
          /\ j.id # j.kwargs.classification_id
          /\ pending_or_running(scheduler, j.kwargs) = 1

\* a run of a classification's job reaches its end in this step
completes(run) ==
    /\ run \in scheduler.running
    /\ run.func = "run_periodic_scanning_task"
    /\ run.pc = "add_job"
    /\ run \notin scheduler'.running

added_jobs == scheduler'.jobstore \ scheduler.jobstore

\* C15 as claimed: every completed run of a classification's job schedules
\* exactly one next run of the same job, delayed by the classification's
\* scanning_period_minutes, whether or not the run scanned any chunk.  The
\* delay is accepted from the start or from the end of the run.
C15_AlwaysDelayed ==
    [][\A run \in scheduler.running : completes(run) =>
          \E j \in added_jobs :
             /\ added_jobs = {j}
             /\ j.func = "run_periodic_scanning_task"
             /\ j.kwargs = run.kwargs
             /\ j.next_run_time \in {run.start_time + seconds(run.period),
                                     scheduler.clock + seconds(run.period)}]_vars

\* C15, amended: every completed run of a classification's job schedules
\* exactly one next run of the same job; the next run is due
\* scanning_period_minutes after the start of the run when the run had no
\* chunk to scan, and due at once (at the start time of the run) when the
\* run scanned chunks.
C15_NextRun ==
    [][\A run \in scheduler.running : completes(run) =>
          \E j \in added_jobs :
             /\ added_jobs = {j}
             /\ j.func = "run_periodic_scanning_task"
             /\ j.kwargs = run.kwargs
             /\ run.scanned => j.next_run_time = run.start_time
                                /\ j.next_run_time <= scheduler'.clock
             /\ ~run.scanned => j.next_run_time = run.start_time + seconds(run.period)]_vars

C15_Witness ==
    \E j \in scheduler.jobstore :
        /\ j.func = "run_periodic_scanning_task"
        /\ j.id # j.kwargs.classification_id
        /\ j.next_run_time = scheduler.clock + seconds(2 * scanning_period_minutes)

\* C16: when a run of a classification's job fails during discovery or diff
\* (its sources cannot be read, a connector or a fetch raises, hashing
\* raises), only that run is abandoned and the job still runs again later:
\* after such a run a job of the tuple is pending or running, or the next
\* detection of new tasks will add one.
C16_AbandonedRunsAgain ==
    \A kwargs \in scheduler.abandoned :
        \/ pending_or_running(scheduler, kwargs) >= 1
        \/ is_new_job(kwargs, scheduler.list_of_job_args)

(***************************************************************************)
(* The process pool that drains one work set:                              *)
(* run_periodic_scanning_task (the pool) and worker_tasks/                 *)
(* multiprocessing_tasks.py.  A work set of up to MaxPoolChunks chunks is  *)
(* mapped over MaxProcesses worker processes, one chunk per task.          *)
(***************************************************************************)
MaxPoolChunks == 3
MaxProcesses == 2

TaskStatuses == {"queued", "lease", "analyze", "done", "lost"}

\* the tasks a worker process is executing
in_worker(p) == {i \in 1..Len(p.status) : p.status[i] \in {"lease", "analyze"}}

\* mp_pool.starmap over pool_attrs: every task starts queued
InitPool ==
    \E n \in 1..MaxPoolChunks :
        pool = [status |-> [i \in 1..n |-> "queued"],
                leased |-> {},
                processed |-> {},
                raised |-> {},
                returned |-> FALSE]

InitPoolSpec ==
    /\ InitAgents
    /\ planned = <<>>
    /\ fetching = <<>>
    /\ scheduler = <<>>
    /\ client = <<>>
    /\ analysis = <<>>
    /\ archive = <<>>
    /\ masking = <<>>
    /\ matcher = <<>>
    /\ batching = <<>>
    /\ process = <<>>
    /\ detection = <<>>
    /\ extraction = <<>>
    /\ filtering = <<>>
    /\ InitPool

\* a free worker process takes the oldest queued task and calls
\* start_processing
StartProcessing(i) ==
    /\ pool.status[i] = "queued"
    /\ \A k \in 1..(i - 1) : pool.status[k] # "queued"
    /\ Cardinality(in_worker(pool)) < MaxProcesses
    /\ pool' = [pool EXCEPT !.status[i] = "lease"]
    /\ UNCHANGED <<cycle, planned, fetching, scheduler, client, analysis, archive, masking, matcher, batching, process, detection, extraction, filtering>>

\* run_scanner up to the lease: the conditional update gives the chunk to
\* this worker, or finds it taken (the task returns), or raises (the
\* exception is logged and the task returns)
ScanningUpdateStatus(i) ==
    \E update_result \in {"leased", "refused", "raises"} :
        /\ pool.status[i] = "lease"
        /\ pool' = [pool EXCEPT
               !.status[i] = IF update_result = "leased" THEN "analyze" ELSE "done",
               !.leased = IF update_result = "leased" THEN @ \cup {i} ELSE @,
               !.raised = IF update_result = "raises" THEN @ \cup {i} ELSE @]
        /\ UNCHANGED <<cycle, planned, fetching, scheduler, client, analysis, archive, masking, matcher, batching, process, detection, extraction, filtering>>

\* run_scanner after the lease: the chunk is analysed, or the pipeline
\* raises (the exception is logged and the task returns)
RunScanner(i) ==
    \E raises \in BOOLEAN :
        /\ pool.status[i] = "analyze"
        /\ pool' = [pool EXCEPT
               !.status[i] = "done",
               !.processed = IF raises THEN @ ELSE @ \cup {i},
               !.raised = IF raises THEN @ \cup {i} ELSE @]
        /\ UNCHANGED <<cycle, planned, fetching, scheduler, client, analysis, archive, masking, matcher, batching, process, detection, extraction, filtering>>

\* the worker process dies in the middle of a task (killed for its memory,
\* a fault in native code): the pool starts another worker in its place,
\* the task and its result are lost
WorkerDies(i) ==
    /\ i \in in_worker(pool)
    /\ pool' = [pool EXCEPT !.status[i] = "lost"]
    /\ UNCHANGED <<cycle, planned, fetching, scheduler, client, analysis, archive, masking, matcher, batching, process, detection, extraction, filtering>>

\* the result of every task has arrived
all_results(p) == \A i \in 1..Len(p.status) : p.status[i] = "done"

\* mp_pool.starmap returns once the result of every task has arrived
StarMapReturns ==
    /\ ~pool.returned
    /\ all_results(pool)
    /\ pool' = [pool EXCEPT !.returned = TRUE]
    /\ UNCHANGED <<cycle, planned, fetching, scheduler, client, analysis, archive, masking, matcher, batching, process, detection, extraction, filtering>>

NextPool ==
    \/ \E i \in 1..Len(pool.status) : StartProcessing(i)
    \/ \E i \in 1..Len(pool.status) : ScanningUpdateStatus(i)
    \/ \E i \in 1..Len(pool.status) : RunScanner(i)
    \/ \E i \in 1..Len(pool.status) : WorkerDies(i)
    \/ StarMapReturns

SpecPool == InitPoolSpec /\ [][NextPool]_vars

\* no task is queued or in a worker: the workers have nothing left to do
drained(p) == \A i \in 1..Len(p.status) : p.status[i] \in {"done", "lost"}

\* C17: when the pipeline of one chunk of a drained work set raises or its
\* worker crashes, every other chunk of the work set is still leased and
\* processed and the job still finishes: once the workers have nothing left
\* to do, every chunk but the failed ones has gone through its pipeline and
\* the pool returns to the job.
C17_FailureContained ==
    drained(pool) =>
        /\ \A i \in pool.leased : i \in pool.processed \cup pool.raised \/ pool.status[i] = "lost"
        /\ pool.returned \/ all_results(pool)

(***************************************************************************)
(* One logical request of the agent to the control plane: make_request of  *)
(* send_request.py.  The control plane answers every attempt with a status *)
(* and a body that is JSON or not; status 0 stands for an attempt that got *)
(* no answer (aiohttp raised).                                             *)
(***************************************************************************)
MaxRequests == 5

HttpStatuses == {0, 200, 401, 404, 424, 500, 503}
Answers == [status : HttpStatuses, json : BOOLEAN]

not_found(status) == status \in {404, 422}
unauthorized(status) == status = 401
retried_from_500(status) == status = 424 \/ status >= 500
retried(status) == status = 424 \/ status > 500
gives_up_at_one(attempt) == attempt = 1
gives_up(attempt) == attempt = 2

InitRequest ==
    client = [pc |-> "request", attempt |-> 0, answers |-> <<>>, refreshes |-> 0,
              result |-> "pending"]

InitClient ==
    /\ InitAgents
    /\ planned = <<>>
    /\ fetching = <<>>
    /\ scheduler = <<>>
    /\ pool = <<>>
    /\ analysis = <<>>
    /\ archive = <<>>
    /\ masking = <<>>
    /\ matcher = <<>>
    /\ batching = <<>>
    /\ process = <<>>
    /\ detection = <<>>
    /\ extraction = <<>>
    /\ filtering = <<>>
    /\ InitRequest

return(c, result) == [c EXCEPT !.pc = "returned", !.result = result]

\* one call of make_request: the request is sent and the answer handled;
\* a retry is the next call, with the attempt number the code passes on
make_request(c, answer) ==
    LET sent == [c EXCEPT !.answers = Append(@, answer)]
        status == answer.status
    IN  IF status = 0 THEN return(sent, "None")
        ELSE IF not_found(status) THEN return(sent, "None")
        ELSE IF unauthorized(status)
        THEN IF gives_up(c.attempt) THEN return(sent, "None")
             ELSE [sent EXCEPT !.refreshes = @ + 1, !.attempt = @ + 1]
        ELSE IF retried(status)
        THEN IF answer.json THEN [sent EXCEPT !.attempt = 0]
             ELSE return(sent, "None")
        ELSE IF answer.json THEN return(sent, "json")
        ELSE return(sent, "None")

MakeRequest ==
    \E answer \in Answers :
        /\ client.pc = "request"
        /\ Len(client.answers) < MaxRequests
        /\ client' = make_request(client, answer)
        /\ UNCHANGED <<cycle, planned, fetching, scheduler, pool, analysis, archive, masking, matcher, batching, process, detection, extraction, filtering>>

\* the caller goes on to its next logical request
NextRequest ==
    /\ client.pc = "returned"
    /\ client' = [pc |-> "request", attempt |-> 0, answers |-> <<>>, refreshes |-> 0,
                  result |-> "pending"]
    /\ UNCHANGED <<cycle, planned, fetching, scheduler, pool, analysis, archive, masking, matcher, batching, process, detection, extraction, filtering>>

NextClient ==
    \/ MakeRequest
    \/ NextRequest

SpecClient == InitClient /\ [][NextClient]_vars

statuses_of(c) == [i \in 1..Len(c.answers) |-> c.answers[i].status]
always(c, status) == \A i \in 1..Len(c.answers) : c.answers[i].status = status
last_status(c) == c.answers[Len(c.answers)].status

C19_RefreshBudget ==
    client.refreshes <= 2

\* C20: make_request never returns for an answer with status 424 or a status
\* from 500 to 599: each such answer is followed, after a sleep, by another
\* attempt, and the call returns only after an answer with another status.
C20_RetriedForever ==
    client.pc = "returned" => ~retried_from_500(last_status(client))

(***************************************************************************)
(* The pipeline of one leased chunk after its fetch: analyze_content_data, *)
(* is_not_valid_chunk and save_chunk of base_scan_service.py with          *)
(* is_phi_in_file_data and scan_file_object of data_analysis_service.py.   *)
(* Fetched data is None, a string (a sequence of words) or a DataFrame (a  *)
(* sequence of cells, "NaN" for a missing value).                          *)
(***************************************************************************)
MaxWords == 2

Words == {"x", "pii"}
Cells == {"NaN", "x", "pii"}
ObjectNames == {"a.csv", "patient.csv"}

seqs_upto(S, n) == UNION {[1..k -> S] : k \in 0..n}

NoneData == [type |-> "NoneType", value |-> <<>>]
StrData == {[type |-> "str", value |-> v] : v \in seqs_upto(Words, MaxWords)}
DataFrames == {[type |-> "DataFrame", value |-> v] : v \in seqs_upto(Cells, MaxWords)}

\* what fetch_data can bring: the content, or None because the object could
\* not be read (read_data, read_data_chunk log the error and return None) or
\* could not be decoded (prepare_file returns None), or an exception
FetchOutcomes ==
    {[cause |-> "content", data |-> d] : d \in {NoneData} \cup StrData \cup DataFrames}
        \cup {[cause |-> c, data |-> NoneData] : c \in {"undecodable", "read_failed", "raises"}}

\* DataFrame.bool, the bound method the code tests without calling it
bound_method_is_truthy == TRUE

\* not chunk.bool() of a DataFrame, had the code called the method on a frame
\* reduced to whether it holds a value
is_not_valid_chunk_called(chunk) ==
    \/ chunk.type = "str" /\ chunk.value = <<>>
    \/ chunk.type = "DataFrame" /\ \A i \in 1..Len(chunk.value) : chunk.value[i] = "NaN"
    \/ chunk.type = "NoneType"

\* is_not_valid_chunk over typed data
is_not_valid_data(chunk) ==
    \/ chunk.type = "str" /\ chunk.value = <<>>
    \/ chunk.type = "DataFrame" /\ ~bound_method_is_truthy
    \/ chunk.type = "NoneType"

\* is_phi_in_file_data: the pattern is searched in the name and in the data
is_phi_in_file_data(object_name, data) == object_name = "patient.csv"

\* scan_file_object: the matches of the classifiers in the text of the data
matches_of(data) == SelectSeq(data.value, LAMBDA w : w = "pii")

InitAnalysis ==
    \E name \in ObjectNames, rescan \in BOOLEAN :
        analysis = [object_name |-> name, rescan_mode |-> rescan, pc |-> "fetch_data",
                    cause |-> "", data |-> NoneData, status |-> IN_PROGRESS,
                    hash |-> "h", is_phi |-> FALSE, probed |-> FALSE,
                    classified |-> FALSE, sensitive_data |-> <<>>, posted |-> 0]

InitAnalyze ==
    /\ InitAgents
    /\ planned = <<>>
    /\ fetching = <<>>
    /\ scheduler = <<>>
    /\ pool = <<>>
    /\ client = <<>>
    /\ archive = <<>>
    /\ masking = <<>>
    /\ matcher = <<>>
    /\ batching = <<>>
    /\ process = <<>>
    /\ detection = <<>>
    /\ extraction = <<>>
    /\ filtering = <<>>
    /\ InitAnalysis

\* analyze_content_data up to the classifiers: the fetch, the validity
\* guard, the hash of a rescan and the PHI probe; an exception of the fetch
\* leaves the pipeline (run_scanner logs it)
FetchAndProbe ==
    \E o \in FetchOutcomes :
        /\ analysis.pc = "fetch_data"
        /\ analysis' =
              IF o.cause = "raises"
              THEN [analysis EXCEPT !.cause = o.cause, !.pc = "raised"]
              ELSE IF is_not_valid_data(o.data)
              THEN [analysis EXCEPT !.cause = o.cause, !.data = o.data, !.pc = "save_chunk"]
              ELSE [analysis EXCEPT
                       !.cause = o.cause,
                       !.data = o.data,
                       !.hash = IF analysis.rescan_mode THEN "None" ELSE @,
                       !.is_phi = is_phi_in_file_data(analysis.object_name, o.data),
                       !.probed = TRUE,
                       !.pc = "scan_file_object"]
        /\ UNCHANGED <<cycle, planned, fetching, scheduler, pool, client, archive, masking, matcher, batching, process, detection, extraction, filtering>>

\* scan_file_object: the classifiers run over the text of the data
ScanFileObject ==
    /\ analysis.pc = "scan_file_object"
    /\ analysis' = [analysis EXCEPT
           !.classified = TRUE,
           !.sensitive_data = matches_of(analysis.data),
           !.pc = IF matches_of(analysis.data) = <<>> THEN "save_chunk" ELSE "post"]
    /\ UNCHANGED <<cycle, planned, fetching, scheduler, pool, client, archive, masking, matcher, batching, process, detection, extraction, filtering>>

\* analyze_content_data: the POST of the sensitive data
PostSensitiveData ==
    /\ analysis.pc = "post"
    /\ analysis' = [analysis EXCEPT !.posted = @ + 1, !.pc = "save_chunk"]
    /\ UNCHANGED <<cycle, planned, fetching, scheduler, pool, client, archive, masking, matcher, batching, process, detection, extraction, filtering>>

\* save_chunk: the PUT that finalises the chunk
SaveChunkData ==
    /\ analysis.pc = "save_chunk"
    /\ analysis' = [analysis EXCEPT !.status = SCANNED, !.pc = "done"]
    /\ UNCHANGED <<cycle, planned, fetching, scheduler, pool, client, archive, masking, matcher, batching, process, detection, extraction, filtering>>

NextAnalyze ==
    \/ FetchAndProbe
    \/ ScanFileObject
    \/ PostSensitiveData
    \/ SaveChunkData

SpecAnalyze == InitAnalyze /\ [][NextAnalyze]_vars

\* the fetch has brought no content: null, an empty string, or a dataframe
\* with no value that is not NaN
no_content(a) ==
    /\ a.pc \notin {"fetch_data", "raised"}
    /\ is_not_valid_chunk_called(a.data)

\* C21: when the fetched content of a leased chunk is null, an empty string
\* or a dataframe with no non-NaN value, the pipeline runs no PHI probe and
\* no classification, posts no findings, and finalises the chunk.
C21_EmptyContentSkipsClassifiers ==
    no_content(analysis) =>
        /\ ~analysis.probed
        /\ ~analysis.classified
        /\ analysis.posted = 0
        /\ analysis.pc \in {"save_chunk", "done"}
        /\ analysis.pc = "done" => analysis.status = SCANNED

\* C22 (a chunk): when the content of a chunk cannot be read or decoded, the
\* chunk ends in SKIPPED or FAILED and is not recorded as SCANNED.
C22_UnreadableNotScanned ==
    /\ analysis.cause \in {"undecodable", "read_failed", "raises"}
    /\ analysis.pc \in {"done", "raised"}
    => analysis.status \in {SKIPPED, FAILED}

(***************************************************************************)
(* The discovery of one archive object: collect_file_chunks,               *)
(* check_archive_memory_cost and get_uncompressed_size of file_service.py  *)
(* with check_archive_size of services/utils/disk_usage.py.  Sizes and     *)
(* disk space are counted in one unit.                                     *)
(***************************************************************************)
MaxDisk == 3

\* check_archive_size: the archive fits when less than the free space
check_archive_size_always(free, size) == TRUE
check_archive_size(free, size) == free > size

\* check_archive_memory_cost: an archive that cannot be opened gives None
check_archive_memory_cost(a) ==
    IF a.corrupt THEN FALSE ELSE check_archive_size(a.free, a.uncompressed_size)

\* an archive object found in the source: its size, the total size of its
\* members (nested archives included) and the space of the disk, as it was
\* when the agent started and as it is now
InitArchive ==
    \E size \in 0..MaxDisk, uncompressed_size \in 0..(MaxDisk + 1),
       initial \in 1..MaxDisk, free \in 0..MaxDisk, corrupt \in BOOLEAN :
        /\ size = 0 <=> uncompressed_size = 0
        /\ archive = [size |-> size, uncompressed_size |-> uncompressed_size,
                      INITIAL_DISK_SPACE |-> initial, free |-> free, corrupt |-> corrupt,
                      pc |-> "collect_file_chunks", status |-> WAIT_FOR_SCAN,
                      returned |-> "", data_chunks |-> 0, expanded |-> FALSE]

InitArchiveSpec ==
    /\ InitAgents
    /\ planned = <<>>
    /\ fetching = <<>>
    /\ scheduler = <<>>
    /\ pool = <<>>
    /\ client = <<>>
    /\ analysis = <<>>
    /\ masking = <<>>
    /\ matcher = <<>>
    /\ batching = <<>>
    /\ process = <<>>
    /\ detection = <<>>
    /\ extraction = <<>>
    /\ filtering = <<>>
    /\ InitArchive

\* collect_file_chunks up to the read: an empty object is SCANNED, an archive
\* as large as the disk was free at the start is SKIPPED
CheckObjectSize ==
    /\ archive.pc = "collect_file_chunks"
    /\ archive' =
          IF archive.size = 0
          THEN [archive EXCEPT !.status = SCANNED, !.returned = "content", !.pc = "done"]
          ELSE IF archive.size >= archive.INITIAL_DISK_SPACE
          THEN [archive EXCEPT !.status = SKIPPED, !.returned = "content", !.pc = "done"]
          ELSE [archive EXCEPT !.pc = "read_data"]
    /\ UNCHANGED <<cycle, planned, fetching, scheduler, pool, client, analysis, masking, matcher, batching, process, detection, extraction, filtering>>

\* read_data and check_archive_memory_cost: without the data, or when the
\* members would not fit the free space, the object is left out of this
\* iteration (collect_file_chunks returns None)
ReadAndCheckCost ==
    \E object_data \in BOOLEAN :
        /\ archive.pc = "read_data"
        /\ archive' =
              IF ~object_data \/ ~check_archive_memory_cost(archive)
              THEN [archive EXCEPT !.returned = "None", !.pc = "done"]
              ELSE [archive EXCEPT !.pc = "unpack"]
        /\ UNCHANGED <<cycle, planned, fetching, scheduler, pool, client, analysis, masking, matcher, batching, process, detection, extraction, filtering>>

\* unpack_archive_locally and create_file_chunks for every member; an
\* exception sets the object FAILED, an archive without chunks is SCANNED
UnpackArchive ==
    \E raises \in BOOLEAN, members \in 0..1 :
        /\ archive.pc = "unpack"
        /\ archive' =
              IF raises
              THEN [archive EXCEPT !.expanded = TRUE, !.status = FAILED,
                                   !.returned = "content", !.pc = "done"]
              ELSE [archive EXCEPT !.expanded = TRUE,
                                   !.data_chunks = members,
                                   !.status = IF members = 0 THEN SCANNED ELSE @,
                                   !.returned = "content", !.pc = "done"]
        /\ UNCHANGED <<cycle, planned, fetching, scheduler, pool, client, analysis, masking, matcher, batching, process, detection, extraction, filtering>>

NextArchive ==
    \/ CheckObjectSize
    \/ ReadAndCheckCost
    \/ UnpackArchive

SpecArchive == InitArchiveSpec /\ [][NextArchive]_vars

\* the members of the archive exceed the free space of the disk
exceeds_free_disk(a) == a.uncompressed_size > a.free

MaxDataLen == 7

Chars == {"a", "-", "@", "."}
Entities == {"EMAIL_ADDRESS", "ORG_EMAIL", "US_SSN", "PERSON", "PHONE_NUMBER"}

\* 'EMAIL' in entity
is_email(entity) == entity \in {"EMAIL_ADDRESS", "ORG_EMAIL"}

\* the class [A-Za-z0-9]
alphanumeric(c) == c \in {"a"}

\* re.sub('[A-Za-z0-9]', '*', s)
sub_stars(s) == [i \in 1..Len(s) |-> IF alphanumeric(s[i]) THEN "*" ELSE s[i]]

\* s[a:b] for 0 <= a, in the positions of Python
py_slice(s, a, b) ==
    LET to == Min({Max({b, 0}), Len(s)})
    IN  IF a >= to THEN <<>> ELSE SubSeq(s, a + 1, to)

positions(s, c) == {i \in 1..Len(s) : s[i] = c}

\* s.split(c)[-1]: what follows the last c, the whole of s without any
last_part(s, c) ==
    IF positions(s, c) = {} THEN s
    ELSE py_slice(s, Max(positions(s, c)), Len(s))

\* username, domain = data.split('@') raises ValueError unless there is
\* exactly one '@'
unpacks(data) == Cardinality(positions(data, "@")) = 1

mask_email(entity, data) ==
    LET whole == last_part(data, "@")
        domain == IF entity = "EMAIL_ADDRESS" THEN last_part(whole, ".") ELSE whole
        lead == IF entity = "EMAIL_ADDRESS" THEN 1 ELSE 2
    IN  py_slice(data, 0, lead)
            \o sub_stars(py_slice(data, lead, Len(data) - Len(domain)))
            \o domain

mask_name(data) ==
    IF Len(data) <= 4
    THEN py_slice(data, 0, 1) \o sub_stars(py_slice(data, 1, Len(data)))
    ELSE IF Len(data) <= 6
    THEN py_slice(data, 0, 2) \o sub_stars(py_slice(data, 2, Len(data)))
    ELSE py_slice(data, 0, 2) \o sub_stars(py_slice(data, 2, Len(data) - 2))
             \o py_slice(data, Len(data) - 2, Len(data))

\* mask_data: an exception inside is logged and the data returned as it is
mask_data(entity, data) ==
    IF data = <<>> THEN <<>>
    ELSE IF is_email(entity) /\ positions(data, "@") # {}
    THEN IF unpacks(data) THEN mask_email(entity, data) ELSE data
    ELSE IF entity \in {"US_SSN", "PERSON"} THEN mask_name(data)
    ELSE sub_stars(data)

InitMasking ==
    \E entity \in Entities, data \in seqs_upto(Chars, MaxDataLen) :
        masking = [entity |-> entity, data |-> data, pc |-> "mask_data", pii_data |-> <<>>]

InitMask ==
    /\ InitAgents
    /\ planned = <<>>
    /\ fetching = <<>>
    /\ scheduler = <<>>
    /\ pool = <<>>
    /\ client = <<>>
    /\ analysis = <<>>
    /\ archive = <<>>
    /\ matcher = <<>>
    /\ batching = <<>>
    /\ process = <<>>
    /\ detection = <<>>
    /\ extraction = <<>>
    /\ filtering = <<>>
    /\ InitMasking

\* _process_data: 'pii_data': self.mask_data(recognizer, value)
MaskData ==
    /\ masking.pc = "mask_data"
    /\ masking' = [masking EXCEPT !.pii_data = mask_data(masking.entity, masking.data),
                                  !.pc = "done"]
    /\ UNCHANGED <<cycle, planned, fetching, scheduler, pool, client, analysis, archive, matcher, batching, process, detection, extraction, filtering>>

NextMask == MaskData

SpecMask == InitMask /\ [][NextMask]_vars

\* the positions the masking rule of a classifier keeps: leading characters,
\* trailing characters, the domain or the top-level domain of an e-mail
kept(entity, data) ==
    LET n == Len(data)
        domain == last_part(data, "@")
    IN  IF is_email(entity) /\ positions(data, "@") # {}
        THEN IF entity = "EMAIL_ADDRESS"
             THEN {1} \cup {i \in 1..n : i > n - Len(last_part(domain, "."))}
             ELSE {1, 2} \cup {i \in 1..n : i > n - Len(domain)}
        ELSE IF entity \in {"US_SSN", "PERSON"}
        THEN IF n <= 4 THEN {1}
             ELSE IF n <= 6 THEN {1, 2}
             ELSE {1, 2, n - 1, n}
        ELSE {}

\* C24: for every classifier name and every matched string, mask_data
\* returns a string of the same length in which every alphanumeric character
\* outside the positions the masking rule keeps is replaced by '*'.
C24_MaskedOutsideKept ==
    masking.pc = "done" =>
        /\ Len(masking.pii_data) = Len(masking.data)
        /\ \A i \in 1..Len(masking.data) :
              alphanumeric(masking.data[i]) /\ i \notin kept(masking.entity, masking.data)
                  => masking.pii_data[i] = "*"

\* ---------------------------------------------------------------------
\* The regex engines of DataAnalysisService._analyze (hyperscan_service.py,
\* re2_service.py, re_service.py) and the exclusion of credential matches.
\* A text is a string over TextChars; the classifier's pattern is k=\S+ ,
\* the shape of the credential patterns of core/regex_patterns.py (a key,
\* an equals sign, a run of non-blank characters).
\* ---------------------------------------------------------------------
MaxTextLen == 5
TextChars == {"k", "=", "g", "e", "t", "(", ")"}
Engines == {"HYPERSCAN", "RE2", "RE"}
\* one name of regex.credentials_patterns and one of regex.default_patterns
RecognizerNames == {"AWS_CREDENTIALS", "US_SSN"}
credentials_patterns == {"AWS_CREDENTIALS"}

\* re.search(regex.SECRET_EXCLUDE, s): (\(.*\)) | (=\s*get)
SECRET_EXCLUDE(s) ==
    \/ \E i, j \in 1..Len(s) : i < j /\ s[i] = "(" /\ s[j] = ")"
    \/ \E i \in 1..Len(s) : i + 3 <= Len(s)
         /\ s[i] = "=" /\ s[i + 1] = "g" /\ s[i + 2] = "e" /\ s[i + 3] = "t"

\* text[start:end] with 0-based start and exclusive end
substring(text, start, end) == SubSeq(text, start + 1, end)

\* the pattern k=\S+ matches text[start:end]
pattern_matches(text, start, end) ==
    /\ 0 <= start /\ end <= Len(text) /\ end - start >= 3
    /\ text[start + 1] = "k" /\ text[start + 2] = "="

\* Hyperscan with HS_FLAG_SOM_LEFTMOST: one event per end offset at which a
\* match ends, with the leftmost start of a match ending there
match_events(text) ==
    {<<s, e>> \in (0..Len(text)) \X (0..Len(text)) :
        /\ pattern_matches(text, s, e)
        /\ \A s2 \in 0..Len(text) : pattern_matches(text, s2, e) => s <= s2}

\* __match_event_handler applied to the events in the order of their end
\* offsets: an excluded credential match is dropped, any other replaces the
\* entry of its start
RECURSIVE match_event_handler(_, _, _, _)
match_event_handler(text, name, end, results) ==
    IF end > Len(text) THEN results
    ELSE LET here == {ev \in match_events(text) : ev[2] = end}
             kept_here == {ev \in here :
                 ~(name \in credentials_patterns
                   /\ SECRET_EXCLUDE(substring(text, ev[1], ev[2])))}
             starts == {ev[1] : ev \in kept_here}
             updated == [s \in DOMAIN results \cup starts |->
                 IF s \in starts THEN substring(text, s, end) ELSE results[s]]
         IN match_event_handler(text, name, end + 1, updated)

empty_results == [s \in {} |-> <<>>]

\* HyperScanService.extract_entities: list(results.values())
hyperscan_extract_entities(text, name) ==
    LET results == match_event_handler(text, name, 0, empty_results)
    IN {results[s] : s \in DOMAIN results}

\* re.finditer / re2.finditer: leftmost, greedy, non-overlapping matches;
\* \S+ runs to the end of a text without blanks
RECURSIVE finditer(_, _)
finditer(text, pos) ==
    LET starts == {s \in pos..Len(text) : pattern_matches(text, s, Len(text))}
    IN IF starts = {} THEN {}
       ELSE LET s == CHOOSE m \in starts : \A o \in starts : m <= o
            IN {substring(text, s, Len(text))}

\* ReService.extract_entity, Re2Service.extract_entity: every match.group()
extract_entity(text, name) == finditer(text, 0)

InitMatcher ==
    matcher \in [pc : {"ready"}, text : seqs_upto(TextChars, MaxTextLen),
                 engine : Engines, name : RecognizerNames, results : {{}}]

InitMatch ==
    /\ InitAgents
    /\ planned = <<>>
    /\ fetching = <<>>
    /\ scheduler = <<>>
    /\ pool = <<>>
    /\ client = <<>>
    /\ analysis = <<>>
    /\ archive = <<>>
    /\ masking = <<>>
    /\ batching = <<>>
    /\ process = <<>>
    /\ detection = <<>>
    /\ extraction = <<>>
    /\ filtering = <<>>
    /\ InitMatcher

\* _analyze, hyperscan branch (lines 55-57)
AnalyzeHyperscan ==
    /\ matcher.pc = "ready" /\ matcher.engine = "HYPERSCAN"
    /\ matcher' = [matcher EXCEPT !.pc = "done",
           !.results = hyperscan_extract_entities(matcher.text, matcher.name)]
    /\ UNCHANGED <<cycle, planned, fetching, scheduler, pool, client, analysis, archive, masking, batching, process, detection, extraction, filtering>>

\* _analyze, re2 branch (lines 58-60)
AnalyzeRe2 ==
    /\ matcher.pc = "ready" /\ matcher.engine = "RE2"
    /\ matcher' = [matcher EXCEPT !.pc = "done",
           !.results = extract_entity(matcher.text, matcher.name)]
    /\ UNCHANGED <<cycle, planned, fetching, scheduler, pool, client, analysis, archive, masking, batching, process, detection, extraction, filtering>>

\* _analyze, re branch (lines 61-63)
AnalyzeRe ==
    /\ matcher.pc = "ready" /\ matcher.engine = "RE"
    /\ matcher' = [matcher EXCEPT !.pc = "done",
           !.results = extract_entity(matcher.text, matcher.name)]
    /\ UNCHANGED <<cycle, planned, fetching, scheduler, pool, client, analysis, archive, masking, batching, process, detection, extraction, filtering>>

NextMatch == AnalyzeHyperscan \/ AnalyzeRe2 \/ AnalyzeRe

SpecMatch == InitMatch /\ [][NextMatch]_vars

\* C25: for a classifier of the credentials family no finding is emitted
\* for a match whose substring matches the sentinel exclusion regex,
\* whichever engine runs the classifier
C25_NoExcludedCredential ==
    (matcher.pc = "done" /\ matcher.name \in credentials_patterns)
        => \A v \in matcher.results : ~SECRET_EXCLUDE(v)

\* ---------------------------------------------------------------------
\* Findings in batches: DataAnalysisService.scan_file_object and
\* _process_data (data_analysis_service.py 173-226) and their consumer, the
\* loop of BaseScanService.analyze_content_data (base_scan_service.py
\* 930-941).  A finding is named <<column, k>>: the k-th result _analyze
\* yields for that column (a string content is one column).
\* ---------------------------------------------------------------------
\* 100_000 in the source (data_analysis_service.py:19); the model keeps the
\* comparison and counts in batches of this size
SENSITIVE_DATA_CHUNK == 2
MaxMatches == 5
MaxColumns == 2

\* len(processed_results) >= SENSITIVE_DATA_CHUNK
batch_is_full_above(n) == n > SENSITIVE_DATA_CHUNK
batch_is_full(n) == n >= SENSITIVE_DATA_CHUNK

\* the non-empty results of _analyze per column, in the order it yields them
analyze_results(col, n) == [k \in 1..n |-> <<col, k>>]

InitBatching ==
    \E counts \in UNION {[1..c -> 0..MaxMatches] : c \in 1..MaxColumns} :
        batching = [pc |-> "loop", counts |-> counts, col |-> 1, i |-> 1,
                    processed_results |-> <<>>, posted |-> <<>>]

InitBatch ==
    /\ InitAgents
    /\ planned = <<>>
    /\ fetching = <<>>
    /\ scheduler = <<>>
    /\ pool = <<>>
    /\ client = <<>>
    /\ analysis = <<>>
    /\ archive = <<>>
    /\ masking = <<>>
    /\ matcher = <<>>
    /\ process = <<>>
    /\ detection = <<>>
    /\ extraction = <<>>
    /\ filtering = <<>>
    /\ InitBatching

\* _process_data, one pass of the for loop (lines 201-223): the finding is
\* built and appended; a full list is yielded
ProcessResult ==
    /\ batching.pc = "loop"
    /\ batching.i <= batching.counts[batching.col]
    /\ LET result == analyze_results(batching.col, batching.counts[batching.col])[batching.i]
           appended == Append(batching.processed_results, result)
       IN batching' = [batching EXCEPT !.processed_results = appended, !.i = @ + 1,
              !.pc = IF batch_is_full(Len(appended)) THEN "yielded" ELSE "loop"]
    /\ UNCHANGED <<cycle, planned, fetching, scheduler, pool, client, analysis, archive, masking, matcher, process, detection, extraction, filtering>>

\* _process_data, the results are exhausted: the last yield (line 226)
LastYield ==
    /\ batching.pc = "loop"
    /\ batching.i > batching.counts[batching.col]
    /\ batching' = [batching EXCEPT !.pc = "last"]
    /\ UNCHANGED <<cycle, planned, fetching, scheduler, pool, client, analysis, archive, masking, matcher, process, detection, extraction, filtering>>

\* analyze_content_data, lines 930-941: an empty batch is passed over, any
\* other is sent as it is at this moment
send_sensitive_data(b) ==
    IF b.processed_results = <<>> THEN b
    ELSE [b EXCEPT !.posted = Append(@, b.processed_results)]

\* the consumer takes the batch yielded inside the loop, then the generator
\* goes on: processed_results.clear() (line 223)
ConsumeYielded ==
    /\ batching.pc = "yielded"
    /\ batching' = [send_sensitive_data(batching) EXCEPT
           !.processed_results = <<>>, !.pc = "loop"]
    /\ UNCHANGED <<cycle, planned, fetching, scheduler, pool, client, analysis, archive, masking, matcher, process, detection, extraction, filtering>>

\* the consumer takes the last batch of a column; scan_file_object goes to
\* the next column with a new list, or yields [] and ends (lines 186-195)
ConsumeLast ==
    /\ batching.pc = "last"
    /\ LET sent == send_sensitive_data(batching)
       IN batching' =
            IF batching.col < Len(batching.counts)
            THEN [sent EXCEPT !.col = @ + 1, !.i = 1, !.processed_results = <<>>,
                              !.pc = "loop"]
            ELSE [sent EXCEPT !.processed_results = <<>>, !.pc = "done"]
    /\ UNCHANGED <<cycle, planned, fetching, scheduler, pool, client, analysis, archive, masking, matcher, process, detection, extraction, filtering>>

NextBatch ==
    \/ ProcessResult
    \/ LastYield
    \/ ConsumeYielded
    \/ ConsumeLast

SpecBatch == InitBatch /\ [][NextBatch]_vars

RECURSIVE concatenation(_)
concatenation(batches) ==
    IF batches = <<>> THEN <<>>
    ELSE Head(batches) \o concatenation(Tail(batches))

RECURSIVE findings_upto(_, _)
findings_upto(counts, col) ==
    IF col = 0 THEN <<>>
    ELSE findings_upto(counts, col - 1) \o analyze_results(col, counts[col])

\* C26: every posted batch is non-empty and holds at most
\* SENSITIVE_DATA_CHUNK findings, and once the chunk's scan has ended the
\* concatenation of the posted batches is the sequence of the chunk's
\* findings in match order, each exactly once
C26_BatchesAreTheFindings ==
    /\ \A b \in 1..Len(batching.posted) :
          /\ batching.posted[b] # <<>>
          /\ Len(batching.posted[b]) <= SENSITIVE_DATA_CHUNK
    /\ batching.pc = "done" =>
          concatenation(batching.posted)
              = findings_upto(batching.counts, Len(batching.counts))

\* a chunk with full batches and a shorter last one in its first column and
\* more findings in its second
C26_Witness ==
    /\ batching.pc = "done"
    /\ Len(batching.counts) = 2
    /\ batching.counts[1] > 2 * SENSITIVE_DATA_CHUNK
    /\ batching.counts[2] > 0
    /\ Len(batching.posted) >= 4

\* ---------------------------------------------------------------------
\* Termination: SignalHandler.exit_gracefully (signal_handler.py) in the
\* main thread, the scanning job in the only thread of customer_scheduler's
\* executor (core/scheduler.py), and the job's pool of worker processes
\* (redis_tasks.py 396-403, multiprocessing_tasks.py).
\* ---------------------------------------------------------------------
MaxSignalChunks == 2

\* how the signal reaches the agent: to the main process alone (kill, a
\* container runtime) or to its process group (the terminal's interrupt
\* key), where the worker processes of the pool receive it as well
Deliveries == {"process", "group"}

InitProcess ==
    process = [customer |-> "running", backdrop |-> "running",
               signal |-> "none", handler |-> "idle", job |-> "idle",
               task |-> <<>>, chunk |-> <<>>, started_late |-> FALSE,
               exited |-> FALSE]

InitSignal ==
    /\ InitAgents
    /\ planned = <<>>
    /\ fetching = <<>>
    /\ scheduler = <<>>
    /\ pool = <<>>
    /\ client = <<>>
    /\ analysis = <<>>
    /\ archive = <<>>
    /\ masking = <<>>
    /\ matcher = <<>>
    /\ batching = <<>>
    /\ detection = <<>>
    /\ extraction = <<>>
    /\ filtering = <<>>
    /\ InitProcess

\* the scheduler starts the scanning job, which maps its work set over the
\* pool; a scheduler that was shut down starts nothing
StartScanningJob ==
    \E n \in 1..MaxSignalChunks :
        /\ process.customer = "running" /\ process.job = "idle"
        /\ ~process.exited
        /\ process' = [process EXCEPT !.job = "running",
               !.task = [i \in 1..n |-> "queued"],
               !.chunk = [i \in 1..n |-> "WAIT_FOR_SCAN"],
               !.started_late = process.signal # "none"]
        /\ UNCHANGED <<cycle, planned, fetching, scheduler, pool, client, analysis, archive, masking, matcher, batching, detection, extraction, filtering>>

\* run_scanner, lines 25-33: the lease
LeaseInWorker(i) ==
    /\ process.task[i] = "queued"
    /\ process' = [process EXCEPT !.task[i] = "analyze", !.chunk[i] = "IN_PROGRESS"]
    /\ UNCHANGED <<cycle, planned, fetching, scheduler, pool, client, analysis, archive, masking, matcher, batching, detection, extraction, filtering>>

\* run_scanner, lines 34-38: the pipeline ends with save_chunk, or raises
\* and the exception is logged
AnalyzeInWorker(i) ==
    \E raises \in BOOLEAN :
        /\ process.task[i] = "analyze"
        /\ process' = [process EXCEPT !.task[i] = "done",
               !.chunk[i] = IF raises THEN @ ELSE "SCANNED"]
        /\ UNCHANGED <<cycle, planned, fetching, scheduler, pool, client, analysis, archive, masking, matcher, batching, detection, extraction, filtering>>

\* the tasks a worker process has in hand
in_flight(p) == {i \in 1..Len(p.task) : p.task[i] = "analyze"}

\* the signal arrives and exit_gracefully starts in the main thread:
\* customer_scheduler.shutdown() stops the scheduler and waits for the job
\* in its executor.  A worker process has no handler of its own (the pool
\* spawns it; SignalHandler is set up in main() only): a signal that
\* reaches it ends it with KeyboardInterrupt, which neither run_scanner
\* nor start_processing catches (except Exception)
exit_gracefully(p, delivery) ==
    [p EXCEPT !.signal = delivery, !.handler = "customer_shutdown",
              !.customer = "stopped",
              !.task = [i \in DOMAIN p.task |->
                   IF delivery = "group" /\ i \in in_flight(p) THEN "lost"
                   ELSE p.task[i]]]

Signal ==
    \E delivery \in Deliveries :
        /\ process.signal = "none"
        /\ process' = exit_gracefully(process, delivery)
        /\ UNCHANGED <<cycle, planned, fetching, scheduler, pool, client, analysis, archive, masking, matcher, batching, detection, extraction, filtering>>

\* mp_pool.starmap returns once every task has returned; the job ends
JobEnds ==
    /\ process.job = "running"
    /\ \A i \in 1..Len(process.task) : process.task[i] = "done"
    /\ process' = [process EXCEPT !.job = "idle"]
    /\ UNCHANGED <<cycle, planned, fetching, scheduler, pool, client, analysis, archive, masking, matcher, batching, detection, extraction, filtering>>

\* exit_gracefully, lines 20-23: the executor has no job left, so
\* customer_scheduler.shutdown() returns and backdrop_scheduler.shutdown()
\* follows
ShutdownReturns ==
    /\ process.handler = "customer_shutdown"
    /\ process.job = "idle"
    /\ process' = [process EXCEPT !.handler = "returned", !.backdrop = "stopped"]
    /\ UNCHANGED <<cycle, planned, fetching, scheduler, pool, client, analysis, archive, masking, matcher, batching, detection, extraction, filtering>>

\* customer_scheduler.start() returns in main(), the process ends
Exit ==
    /\ process.handler = "returned"
    /\ ~process.exited
    /\ process' = [process EXCEPT !.exited = TRUE]
    /\ UNCHANGED <<cycle, planned, fetching, scheduler, pool, client, analysis, archive, masking, matcher, batching, detection, extraction, filtering>>

NextSignal ==
    \/ StartScanningJob
    \/ \E i \in 1..Len(process.task) : LeaseInWorker(i)
    \/ \E i \in 1..Len(process.task) : AnalyzeInWorker(i)
    \/ Signal
    \/ JobEnds
    \/ ShutdownReturns
    \/ Exit

SpecSignal == InitSignal /\ [][NextSignal]_vars

\* no worker process is at work on a task
workers_ended(p) == \A i \in 1..Len(p.task) : p.task[i] \in {"done", "lost"}

\* C27: after the signal is handled the schedulers start no further job,
\* and every pipeline in flight runs to its finalising update: once the
\* workers have ended, and so at exit, no chunk this agent leased is
\* IN_PROGRESS
C27_GracefulShutdown ==
    /\ ~process.started_late
    /\ process.exited => process.customer = "stopped" /\ process.backdrop = "stopped"
    /\ (process.signal # "none" /\ workers_ended(process))
          => \A i \in 1..Len(process.chunk) : process.chunk[i] # "IN_PROGRESS"

\* ---------------------------------------------------------------------
\* Which tuples detect_new_tasks_job registers (worker_tasks/redis_jobs.py
\* 35-108): one classification group as the control plane serves it, the
\* agent's scanner id (settings.SCANNER_ID, the instance id, never empty)
\* and the account id the control plane answers for the agent's AWS account.
\* ---------------------------------------------------------------------
MaxClassifications == 2

SCANNER_ID == "i-this"
ScannerIds == {"i-this", "i-other"}
AccountIds == {"acct-own", "acct-other"}
\* one AWS service and one that is not (schemas/common.py, is_aws)
Services == {"S3", "GitHub"}
is_aws(service) == service = "S3"

\* DataClassificationGroupRead: scanner_ids is optional (the empty set stands
\* for None and for []), scanner_account_id is optional and compared as
\* str(scanner_account_id), "None" when it is missing
ClassificationGroups ==
    [scanner_ids : SUBSET ScannerIds,
     scanner_account_id : AccountIds \cup {"None"},
     service_ids : SUBSET AccountIds,
     data_classifications :
         UNION {[1..n -> Services] : n \in 1..MaxClassifications}]

\* the answer to the request for the agent's account id: the id, or None
\* when send_request gave up (no string equals it)
AccountAnswers == {"acct-own", "no answer"}

\* lines 65-71: the group is passed over
skips_no_group(group) == FALSE
skips_group(group) ==
    /\ SCANNER_ID # ""
    /\ group.scanner_ids # {}
    /\ SCANNER_ID \notin group.scanner_ids

\* lines 75-81: the classification is passed over
skips_classification(group, service, aws_account_uuid) ==
    /\ ~is_aws(service)
    /\ group.scanner_account_id # aws_account_uuid

\* lines 83-89: the service id is passed over
skips_service_id(service, service_id, aws_account_uuid) ==
    /\ is_aws(service)
    /\ service_id # aws_account_uuid

\* the tuples that reach lines 90-106 for one group: <<account_id,
\* supported_service, classification_id>>, the classification's id being
\* its place in the group
detected(group, aws_account_uuid) ==
    IF skips_group(group) THEN {}
    ELSE {<<service_id, group.data_classifications[c], c>> :
            <<service_id, c>> \in
              {p \in group.service_ids \X DOMAIN group.data_classifications :
                 /\ ~skips_classification(group, group.data_classifications[p[2]], aws_account_uuid)
                 /\ ~skips_service_id(group.data_classifications[p[2]], p[1], aws_account_uuid)}}

InitDetection ==
    \E group \in ClassificationGroups, account \in AccountAnswers :
        detection = [pc |-> "ready", group |-> group, aws_account_uuid |-> account,
                     list_of_job_args |-> {}]

InitDetect ==
    /\ InitAgents
    /\ planned = <<>>
    /\ fetching = <<>>
    /\ scheduler = <<>>
    /\ pool = <<>>
    /\ client = <<>>
    /\ analysis = <<>>
    /\ archive = <<>>
    /\ masking = <<>>
    /\ matcher = <<>>
    /\ batching = <<>>
    /\ process = <<>>
    /\ extraction = <<>>
    /\ filtering = <<>>
    /\ InitDetection

\* detect_new_tasks_job: every detected tuple that is not in
\* list_of_job_args is added to it and registered as a job
DetectNewTasksJob ==
    /\ detection.pc = "ready"
    /\ detection' = [detection EXCEPT !.pc = "done",
           !.list_of_job_args = @ \cup detected(detection.group, detection.aws_account_uuid)]
    /\ UNCHANGED <<cycle, planned, fetching, scheduler, pool, client, analysis, archive, masking, matcher, batching, process, extraction, filtering>>

NextDetect == DetectNewTasksJob

SpecDetect == InitDetect /\ [][NextDetect]_vars

\* the group lists this agent's scanner id
lists_this_scanner(group) == SCANNER_ID \in group.scanner_ids

\* the classification is AWS-scoped and the service id is the AWS account
\* the agent owns
owns_aws_account(args, account) == is_aws(args[2]) /\ args[1] = account

\* C28 as claimed: a job is registered only for a tuple whose group lists
\* this agent's scanner id, or whose classification is AWS-scoped with the
\* agent's own AWS account as service id
C28_OnlyAssigned ==
    \A args \in detection.list_of_job_args :
        \/ lists_this_scanner(detection.group)
        \/ owns_aws_account(args, detection.aws_account_uuid)

\* C28 amended: a job is registered only for a tuple whose group lists this
\* agent's scanner id, or whose classification is AWS-scoped with the
\* agent's own AWS account as service id, or whose group lists no scanner
\* id at all and has the agent's account as its scanner account
C28_AssignedOrOpen ==
    \A args \in detection.list_of_job_args :
        \/ lists_this_scanner(detection.group)
        \/ owns_aws_account(args, detection.aws_account_uuid)
        \/ /\ detection.group.scanner_ids = {}
           /\ detection.group.scanner_account_id = detection.aws_account_uuid

\* a group that lists no scanner, with a classification that is not
\* AWS-scoped, is registered by the agent of its scanner account
C28_Witness ==
    /\ detection.pc = "done"
    /\ detection.group.scanner_ids = {}
    /\ \E args \in detection.list_of_job_args : ~is_aws(args[2])

\* ---------------------------------------------------------------------
\* Worker processes of one agent that fetch chunks of the same archive:
\* S3Service.fetch_data (s3_service.py 212-249), unpack_archive_locally
\* (file_service.py 318-351) and read_archive_object_chunk (501-524).  The
\* archive has the members ArchiveMembers, extracted in this order; a chunk
\* is a member file of the extraction directory (chunk_path).
\* ---------------------------------------------------------------------
MaxFetchers == 2
ArchiveMembers == <<"m1", "m2">>

Fetchers == 1..MaxFetchers

\* the directory as the job's workers find it: removed by
\* clean_local_storage at the end of the job before, or expanded by this
\* job's discovery
InitExtraction ==
    \E found \in BOOLEAN, chunk_of \in [Fetchers -> 1..Len(ArchiveMembers)] :
        extraction =
            [exists |-> found,
             files |-> IF found THEN {ArchiveMembers[m] : m \in 1..Len(ArchiveMembers)} ELSE {},
             worker |-> [w \in Fetchers |->
                 [pc |-> "fetch_data", chunk_path |-> ArchiveMembers[chunk_of[w]],
                  extracted |-> 0, data |-> "pending"]],
             writers |-> {},
             read_unfinished |-> FALSE]

InitUnpack ==
    /\ InitAgents
    /\ planned = <<>>
    /\ fetching = <<>>
    /\ scheduler = <<>>
    /\ pool = <<>>
    /\ client = <<>>
    /\ analysis = <<>>
    /\ archive = <<>>
    /\ masking = <<>>
    /\ matcher = <<>>
    /\ batching = <<>>
    /\ process = <<>>
    /\ detection = <<>>
    /\ filtering = <<>>
    /\ InitExtraction

\* a worker is inside extractall
expanding(e) == {w \in Fetchers : e.worker[w].pc = "extractall"}

\* fetch_data, line 238: os.path.exists(chunk_path), and read_data when the
\* member is not there
CheckChunkPath(w) ==
    /\ extraction.worker[w].pc = "fetch_data"
    /\ extraction' = [extraction EXCEPT !.worker[w].pc =
           IF extraction.worker[w].chunk_path \in extraction.files
           THEN "read_archive_object_chunk" ELSE "unpack_archive_locally"]
    /\ UNCHANGED <<cycle, planned, fetching, scheduler, pool, client, analysis, archive, masking, matcher, batching, process, detection, filtering>>

\* unpack_archive_locally, line 335: os.path.exists(extract_path)
guarded_by_existence(e) == ~e.exists

CheckExtractPath(w) ==
    /\ extraction.worker[w].pc = "unpack_archive_locally"
    /\ extraction' = [extraction EXCEPT !.worker[w].pc =
           IF guarded_by_existence(extraction)
           THEN "extractall" ELSE "read_archive_object_chunk"]
    /\ UNCHANGED <<cycle, planned, fetching, scheduler, pool, client, analysis, archive, masking, matcher, batching, process, detection, filtering>>

\* extractall, one member: the directory is made with the first member,
\* the member's file is written; after the last member the worker goes on
\* to list the directory and to read its chunk
ExtractMember(w) ==
    /\ extraction.worker[w].pc = "extractall"
    /\ LET m == extraction.worker[w].extracted + 1
       IN extraction' = [extraction EXCEPT
              !.exists = TRUE,
              !.files = @ \cup {ArchiveMembers[m]},
              !.writers = @ \cup {w},
              !.worker[w].extracted = m,
              !.worker[w].pc = IF m = Len(ArchiveMembers)
                               THEN "read_archive_object_chunk" ELSE "extractall"]
    /\ UNCHANGED <<cycle, planned, fetching, scheduler, pool, client, analysis, archive, masking, matcher, batching, process, detection, filtering>>

\* read_archive_object_chunk: the member is opened and read; a missing
\* file is an exception, logged, and the chunk's data is None
ReadArchiveObjectChunk(w) ==
    /\ extraction.worker[w].pc = "read_archive_object_chunk"
    /\ extraction' = [extraction EXCEPT
           !.worker[w].pc = "done",
           !.worker[w].data = IF extraction.worker[w].chunk_path \in extraction.files
                              THEN "content" ELSE "None",
           !.read_unfinished = @ \/ expanding(extraction) # {}]
    /\ UNCHANGED <<cycle, planned, fetching, scheduler, pool, client, analysis, archive, masking, matcher, batching, process, detection, filtering>>

NextUnpack ==
    \/ \E w \in Fetchers : CheckChunkPath(w)
    \/ \E w \in Fetchers : CheckExtractPath(w)
    \/ \E w \in Fetchers : ExtractMember(w)
    \/ \E w \in Fetchers : ReadArchiveObjectChunk(w)

SpecUnpack == InitUnpack /\ [][NextUnpack]_vars

\* C29: at most one worker writes the archive's extraction directory, and
\* no worker reads a member from a directory whose expansion has not
\* finished
C29_SingleWriterNoEarlyRead ==
    /\ Cardinality(extraction.writers) <= 1
    /\ ~extraction.read_unfinished

\* ---------------------------------------------------------------------
\* One pipeline per chunk, over scan jobs, rescans and discovery runs of
\* all agents (Spec).
\* ---------------------------------------------------------------------
\* the chunk an agent's worker has in its pipeline after a matched lease
leased_chunk(a) ==
    IF ~agent[a].rescan_mode /\ in_pipeline(agent[a]) /\ agent[a].update_result
    THEN {current_chunk(agent[a]).id} ELSE {}

\* C30: at no time do two workers execute the scan pipeline for the same
\* chunk, whatever the interleaving of scan jobs and discovery runs
C30_OnePipelinePerChunk ==
    \A a, b \in Agents : a # b => leased_chunk(a) \cap leased_chunk(b) = {}


\* ---------------------------------------------------------------------
\* Discovery when the connector cannot list the source: one agent working
\* alone, as in SpecSeq, whose listing may fail.
\* ---------------------------------------------------------------------
\* where listed stands after a listing that failed: no write was seen
NothingListed == 0 - 1

\* get_objects_by_source when the listing raises (bad credentials, missing
\* permission, an error of the paginator): the exception is logged and the
\* listing is [] ; scanner_preparation goes on to
\* remove_deleted_files_from_db with it
GetObjectsBySourceFails(a) ==
    /\ agent[a].pc = "list"
    /\ faults < MaxFaults
    /\ faults' = faults + 1
    /\ agent' = [agent EXCEPT ![a] =
                   remove_deleted_files_from_db(
                     [@ EXCEPT !.all_src_objects = <<>>,
                               !.listed = NothingListed])]
    /\ UNCHANGED <<units, world, plane, jobs, history>>

NextOutage ==
    \/ NextSeq
    \/ GetObjectsBySourceFails(1)

SpecOutage == Init /\ [][NextOutage]_vars

\* the agent's discovery run works on a listing that failed
listing_failed(a) ==
    /\ agent[a].listed = NothingListed
    /\ agent[a].pc \notin {"idle", "load", "list", "lease", "fetch", "report", "save_chunk", "last"}

\* C31: a discovery whose listing is empty because the connector failed
\* deletes no stored metadata record, chunk or finding
C31_FailedListingDeletesNothing ==
    [][listing_failed(1) =>
          /\ DOMAIN metadata \subseteq DOMAIN metadata'
          /\ DOMAIN chunks \subseteq DOMAIN chunks'
          /\ findings \subseteq findings']_vars

\* ------------------------------------------------- the diff's batch update
\* The stored chunks of the record the loop is at whose offset the listed
\* object still has and whose (full_path, offset, hash) no fetched chunk has.
changed_stored_chunks(r) ==
    LET meta == meta_obj(r)
        obj == obj_value(r)
    IN {meta.chunks[j].id : j \in {i \in DOMAIN meta.chunks :
          /\ meta.chunks[i].offset \in Range(obj.data_chunks)
          /\ chunk_string(meta.file_full_path, meta.chunks[i].offset, meta.chunks[i].hash)
               \notin Range(r.object_chunks)}}

\* The step of the agent at the PATCH is one batch update of exactly the
\* changed stored chunks: hash, labels and scanned_at cleared, status
\* WAIT_FOR_SCAN, instance_id cleared or an agent's; other chunks untouched.
update_applied(cleared) ==
    agent[1].pc = "update" =>
        LET r == agent[1]
            ids == changed_stored_chunks(r)
        IN /\ ids # {}
           /\ agent'[1].requests = Append(r.requests, <<"update_chunks", {meta_obj(r).id}>>)
           /\ DOMAIN chunks' = DOMAIN chunks
           /\ \A c \in DOMAIN chunks :
                IF c \in ids
                THEN /\ chunks'[c].hash = None
                     /\ chunks'[c].labels = None
                     /\ ~chunks'[c].scanned_at
                     /\ chunks'[c].status = WAIT_FOR_SCAN
                     /\ (chunks'[c].instance_id \notin Agents) = cleared
                ELSE chunks'[c] = chunks[c]

sole_records(stored) ==
    {i \in DOMAIN stored :
        \A j \in DOMAIN stored :
            stored[j].file_full_path = stored[i].file_full_path => j = i}

\* C33: when a discovery run has ended, every object that was stored before
\* the run, under one record, and is listed has the listed size as its
\* stored file_size, whether or not the run updated or created a chunk of it.
C33_StoredSizeIsListedSize ==
    agent[1].pc = "requeue" =>
        LET stored == agent[1].stored_source_metadata
            listing == agent[1].all_src_objects
        IN \A i \in sole_records(stored) : \A k \in DOMAIN listing :
              listing[k].full_path = stored[i].file_full_path
                => /\ stored[i].id \in DOMAIN metadata
                   /\ metadata[stored[i].id].file_size = listing[k].size

\* ---------------------------------------------------- remove_deleted_chunks
\* The (full_path, offset) pairs of the listed objects' chunks.
discovered_pairs(fetched_objects) ==
    UNION {{<<fetched_objects[i].full_path, fetched_objects[i].data_chunks[j]>> :
              j \in DOMAIN fetched_objects[i].data_chunks} : i \in DOMAIN fetched_objects}

\* The ids of the stored chunks whose (full_path, offset) no listed chunk has.
undiscovered_chunks(stored, fetched_objects) ==
    {stored[pos[1]].chunks[pos[2]].id : pos \in
        {q \in chunk_positions(stored) :
            <<stored[q[1]].file_full_path, stored[q[1]].chunks[q[2]].offset>>
                \notin discovered_pairs(fetched_objects)}}

\* C34: the DELETE of remove_deleted_chunks removes exactly the stored chunks
\* whose (full_path, offset) is that of no discovered chunk.
C34_DeletesExactlyUndiscovered ==
    [][agent[1].pc = "rm_chunks" =>
         DOMAIN chunks' = DOMAIN chunks \
             undiscovered_chunks(agent[1].stored_source_metadata,
                                 agent[1].all_src_objects)]_vars

\* ------------------------------------------------------------ rescan runs
\* The step is the PUT of a chunk by the rescan run of agent a.
rescan_saves(a) ==
    /\ agent[a].rescan_mode /\ agent[a].pc = "save_chunk"
    /\ agent'[a] # agent[a]
    /\ current_chunk(agent[a]).id \in DOMAIN chunks

\* The step ends the rescan run of agent a, the catalog being as the run read it.
rescan_ends(a) ==
    /\ agent[a].rescan_mode /\ agent[a].pc # "idle"
    /\ agent'[a].pc = "idle"
    /\ catalog' = agent[a].latest_data_type

\* C35: a rescan run saves each of its chunks as SCANNED with the catalog's
\* newest timestamp as latest_data_type, and when the run has ended, the
\* catalog being unchanged, the rescan filter selects no chunk of the agent.
C35_RescanConverges ==
    [][\A a \in Agents :
         /\ rescan_saves(a) =>
              LET id == current_chunk(agent[a]).id
              IN /\ chunks'[id].status = SCANNED
                 /\ chunks'[id].latest_data_type = agent[a].latest_data_type
         /\ rescan_ends(a) => rescan_chunks(a)' = <<>>]_vars

\* ------------------------------------------------------- ignored objects
\* The chunks stored for a path that wait for a scan.
waiting_chunks_of(path) ==
    {c \in DOMAIN chunks :
        /\ chunks[c].status = WAIT_FOR_SCAN
        /\ chunks[c].metadata_id \in records_of(path)}

\* The paths that have an IGNORED record and are excluded by the catalog.
ignored_and_excluded ==
    {p \in excluded : \E m \in records_of(p) : metadata[m].status = IGNORED}

\* C36: no step creates a chunk for, or puts into WAIT_FOR_SCAN a chunk of, an
\* object whose stored record is IGNORED and which the catalog still excludes.
C36_IgnoredStaysOutOfQueue ==
    [][\A p \in ignored_and_excluded \cap excluded' :
          waiting_chunks_of(p)' \subseteq waiting_chunks_of(p)]_vars

\* ---------------------------------------------------------------------
\* BaseScanService.filter_objects (base_scan_service.py 414-429) of an S3
\* source: exclude_redundant_objects (s3_service.py 251-261),
\* filter_objects_by_classifications (621-641) with is_supported_filename
\* (591-619), set_ignore_status (263-345) and filter_scanned (431-447), on
\* a listing of at most MaxListed objects and at most MaxStored stored
\* records.
\* ---------------------------------------------------------------------
MaxListed == 2
MaxStored == 1
\* object names and patterns, as tuples of characters
ListedNames == {<<"d", ".", "c", "s", "v">>, <<"a", ".", "L", "O", "G">>,
                <<"b", "l", "o", "g", ".", "c", "s", "v">>, <<"x", ".", "t", "m", "p">>}
ExcludePatterns == {<<"t", "m", "p">>}
IncludePatterns == {<<"c", "s", "v">>}
Etags == {1, 2}

\* str.lower of one character, for the letters the names hold in upper case
lower(char) ==
    IF char = "L" THEN "l" ELSE IF char = "O" THEN "o" ELSE IF char = "G" THEN "g" ELSE char

\* re.search(pattern, string, flags=re.IGNORECASE) for a pattern of plain
\* characters: the pattern occurs somewhere in the string, case ignored
re_search(pattern, string) ==
    \E i \in 1..Len(string) :
        /\ i + Len(pattern) - 1 <= Len(string)
        /\ \A k \in 1..Len(pattern) :
              lower(string[i + k - 1]) = pattern[k]

\* the listed object of a name, as collect_file_chunks builds it
listed_object(name, etag) ==
    [object_name |-> name, full_path |-> name, etag |-> etag,
     size |-> CHUNK_BYTES_CAPACITY, status |-> WAIT_FOR_SCAN, data_chunks |-> <<0>>]

\* the listings: at most MaxListed objects of different names, in any order
Listings ==
    UNION {{[i \in 1..n |-> listed_object(names[i], 2)] :
              names \in {f \in [1..n -> ListedNames] :
                            \A i, j \in 1..n : f[i] = f[j] => i = j}} : n \in 0..MaxListed}

\* the stored records: at most MaxStored, one per (full_path, etag)
StoredRecords ==
    LET keys == ListedNames \X Etags
        stored_record(id, key, status) ==
            [id |-> id, file_full_path |-> key[1], file_etag |-> key[2],
             file_size |-> CHUNK_BYTES_CAPACITY, status |-> status, chunks |-> <<>>]
    IN UNION {{[i \in 1..n |-> stored_record(i, ks[i], sts[i])] :
                 ks \in {f \in [1..n -> keys] : \A i, j \in 1..n : i < j => f[i] # f[j]},
                 sts \in [1..n -> {SCANNED, WAIT_FOR_SCAN, IGNORED}]} : n \in 0..MaxStored}

\* S3Service.exclude_redundant_objects: the log files are skipped
exclude_redundant_objects(objects) ==
    SelectSeq(objects, LAMBDA file : ~re_search(<<"l", "o", "g">>, file.object_name))

\* is_supported_filename: no exclusion pattern matches, and an inclusion
\* pattern matches when there are any
is_supported_filename(obj, included_filenames, excluded_filenames) ==
    IF \E p \in excluded_filenames : re_search(p, obj.object_name) THEN FALSE
    ELSE IF included_filenames = {} THEN TRUE
    ELSE \E p \in included_filenames : re_search(p, obj.object_name)

\* filter_objects_by_classifications
filter_objects_by_classifications(objects, included, included_filenames, excluded_filenames) ==
    SelectSeq(objects, LAMBDA obj :
        /\ included = {} \/ obj.object_name \in included
        /\ is_supported_filename(obj, included_filenames, excluded_filenames))

\* the stored records after the requests of set_ignore_status
records_after_ignore(records, objects, ignored_paths) ==
    LET deleted == metadata_ids_delete(records, ignored_paths)
        updated == ignored_update_list(records, ignored_paths)
        left == SelectSeq(records, LAMBDA rec : rec.id \notin deleted)
        created == ignored_create_list(records, objects, ignored_paths)
    IN [i \in DOMAIN left |->
          IF left[i].id \in updated THEN [left[i] EXCEPT !.status = IGNORED] ELSE left[i]]
       \o [i \in DOMAIN created |->
             [id |-> Len(records) + i, file_full_path |-> created[i].full_path,
              file_etag |-> created[i].etag, file_size |-> created[i].size,
              status |-> IGNORED, chunks |-> <<>>]]

InitFiltering ==
    filtering = [pc |-> "idle", objects |-> <<>>, records |-> <<>>,
                 included |-> {}, included_filenames |-> {}, excluded_filenames |-> {},
                 stored_source_metadata |-> <<>>, filtered_objects |-> <<>>,
                 result |-> <<>>]

InitFilter ==
    /\ InitAgents
    /\ planned = <<>>
    /\ fetching = <<>>
    /\ scheduler = <<>>
    /\ pool = <<>>
    /\ client = <<>>
    /\ analysis = <<>>
    /\ archive = <<>>
    /\ masking = <<>>
    /\ matcher = <<>>
    /\ batching = <<>>
    /\ process = <<>>
    /\ detection = <<>>
    /\ extraction = <<>>
    /\ InitFiltering

\* scanner_preparation calls filter_objects on the listing, the control
\* plane holding the stored records and the filename classifiers
FilterObjects(objects, records, included, included_filenames, excluded_filenames) ==
    /\ filtering.pc = "idle"
    /\ filtering' = [filtering EXCEPT
           !.objects = objects, !.records = records, !.included = included,
           !.included_filenames = included_filenames,
           !.excluded_filenames = excluded_filenames,
           !.pc = "exclude_redundant_objects"]
    /\ UNCHANGED <<cycle, planned, fetching, scheduler, pool, client, analysis, archive, masking, matcher, batching, process, detection, extraction>>

ExcludeRedundantObjects ==
    /\ filtering.pc = "exclude_redundant_objects"
    /\ filtering' = [filtering EXCEPT
           !.filtered_objects = exclude_redundant_objects(filtering.objects),
           !.pc = "filter_objects_by_classifications"]
    /\ UNCHANGED <<cycle, planned, fetching, scheduler, pool, client, analysis, archive, masking, matcher, batching, process, detection, extraction>>

FilterByClassifications ==
    /\ filtering.pc = "filter_objects_by_classifications"
    /\ filtering' = [filtering EXCEPT
           !.filtered_objects = filter_objects_by_classifications(
                                    @, filtering.included, filtering.included_filenames,
                                    filtering.excluded_filenames),
           !.pc = "set_ignore_status"]
    /\ UNCHANGED <<cycle, planned, fetching, scheduler, pool, client, analysis, archive, masking, matcher, batching, process, detection, extraction>>

\* set_ignore_status(objects=ignored_objs): load_stored_metadata, then its
\* DELETE, POST and PATCH
SetIgnoreStatusOfObjects ==
    /\ filtering.pc = "set_ignore_status"
    /\ LET ignored_objs == SelectSeq(filtering.objects,
                                     LAMBDA o : o \notin Range(filtering.filtered_objects))
           ignored == {ignored_objs[i].full_path : i \in DOMAIN ignored_objs}
       IN filtering' = [filtering EXCEPT
              !.stored_source_metadata = filtering.records,
              !.records = records_after_ignore(@, ignored_objs, ignored),
              !.pc = "filter_scanned"]
    /\ UNCHANGED <<cycle, planned, fetching, scheduler, pool, client, analysis, archive, masking, matcher, batching, process, detection, extraction>>

FilterScanned ==
    /\ filtering.pc = "filter_scanned"
    /\ filtering' = [filtering EXCEPT
           !.result = filter_scanned(filtering.stored_source_metadata,
                                     filtering.filtered_objects),
           !.pc = "done"]
    /\ UNCHANGED <<cycle, planned, fetching, scheduler, pool, client, analysis, archive, masking, matcher, batching, process, detection, extraction>>

NextFilter ==
    \/ \E objects \in Listings, records \in StoredRecords,
          included \in {{}, {<<"d", ".", "c", "s", "v">>, <<"x", ".", "t", "m", "p">>}},
          included_filenames \in SUBSET IncludePatterns,
          excluded_filenames \in SUBSET ExcludePatterns :
            FilterObjects(objects, records, included, included_filenames, excluded_filenames)
    \/ ExcludeRedundantObjects
    \/ FilterByClassifications
    \/ SetIgnoreStatusOfObjects
    \/ FilterScanned

SpecFilter == InitFilter /\ [][NextFilter]_vars

\* the listed object is to be scanned: not a log file, not excluded by the
\* filename classifiers or the classifications' objects, not stored SCANNED
\* under its (full_path, etag)
to_be_scanned(f, obj) ==
    /\ ~re_search(<<"l", "o", "g">>, obj.object_name)
    /\ ~\E p \in f.excluded_filenames : re_search(p, obj.object_name)
    /\ f.included_filenames # {} =>
          \E p \in f.included_filenames : re_search(p, obj.object_name)
    /\ f.included # {} => obj.object_name \in f.included
    /\ ~\E i \in DOMAIN f.stored_source_metadata :
          /\ f.stored_source_metadata[i].file_full_path = obj.full_path
          /\ f.stored_source_metadata[i].file_etag = obj.etag
          /\ f.stored_source_metadata[i].status = SCANNED

\* C37: filter_objects returns, in the order of the listing, exactly the
\* listed objects that are not redundant, not excluded and not stored as
\* SCANNED under the same (full_path, etag); all of them when none is.
C37_FilterObjectsExact ==
    filtering.pc = "done" =>
        /\ filtering.result =
             SelectSeq(filtering.objects, LAMBDA obj : to_be_scanned(filtering, obj))
        /\ (\A i \in DOMAIN filtering.objects :
               to_be_scanned(filtering, filtering.objects[i]))
             => filtering.result = filtering.objects

C37_Witness ==
    /\ filtering.pc = "done"
    /\ Len(filtering.objects) = 2
    /\ Len(filtering.result) = 1
    /\ \E i \in DOMAIN filtering.stored_source_metadata :
          /\ filtering.stored_source_metadata[i].status = SCANNED
          /\ filtering.stored_source_metadata[i].file_full_path
                \in {filtering.objects[k].full_path : k \in DOMAIN filtering.objects}
          /\ filtering.stored_source_metadata[i].file_etag = 2

\* C38: a tuple enters list_of_job_args only in a step in which the
\* scheduler accepts a job of the tuple: a tuple whose add_job fails is not
\* listed, so that a later detection of new tasks adds it.
C38_ListedOnlyIfAccepted ==
    [][\A args \in scheduler'.list_of_job_args \ scheduler.list_of_job_args :
          \E j \in added_jobs :
             j.func = "run_periodic_scanning_task" /\ j.kwargs = args]_vars

\* the one-shot jobs of rescan_by_data_type_task (every job of it but the
\* interval job of customer_worker.main) that are pending in the job store,
\* submitted to the executor or running
one_shot_rescans(s) ==
    Cardinality({j \in s.jobstore :
                    j.func = "rescan_by_data_type_task" /\ j.id # "rescan"})
        + Cardinality({i \in 1..Len(s.queue) :
                    s.queue[i].func = "rescan_by_data_type_task" /\ s.queue[i].id # "rescan"})
        + Cardinality({r \in s.running :
                    r.func = "rescan_by_data_type_task" /\ r.id # "rescan"})

\* C39: besides the interval job, at most one one-shot rescan job is
\* pending or running on the foreground scheduler.
C39_OneOneShotRescan == one_shot_rescans(scheduler) <= 1

\* C40: after every execution of token_refresher_job, whether or not the
\* request to the token endpoint succeeded, a token refresh job is
\* scheduled on the foreground scheduler.
C40_RefreshStaysScheduled ==
    [][\A run \in scheduler.running :
          (run.func = "token_refresher_job" /\ run \notin scheduler'.running)
            => \E j \in scheduler'.jobstore : j.func = "token_refresher_job"]_vars
====
